---- MODULE Spec2Model ----
(***************************************************************************)
(* A model of the aria-runtime session kernel: the session FSM             *)
(* (aria/kernel/fsm.py), the kernel's run loop (aria/kernel/kernel.py),    *)
(* the exception hierarchy (aria/models/errors.py), the tool registry      *)
(* (aria/tools/registry.py) and the store operations the kernel uses       *)
(* (aria/memory/sqlite.py).                                                *)
(*                                                                         *)
(* Two specifications:                                                     *)
(*   SpecFSM  a SessionFSM on its own, driven by arbitrary requests;       *)
(*   Spec     one AgentKernel.run, one action per interaction with the     *)
(*            store, the router or the sandbox.                            *)
(***************************************************************************)
EXTENDS Integers, Sequences, FiniteSets, TLC

VARIABLES
    \* ---- SessionFSM (fsm.py) ----
    state,          \* SessionFSM._state
    history,        \* SessionFSM._history
    fsm_last,       \* the last transition request made on a free-standing FSM
    \* ---- AgentKernel.run locals (kernel.py) ----
    pc,             \* position of run
    step_count,     \* step_count
    total_cost,     \* total_cost, in cost units
    final_answer,   \* final_answer ("None" for None)
    error_type,     \* error_type ("None" for None)
    error_msg,      \* error_msg ("None" for None)
    exc,            \* the exception in flight inside run ("None" when none)
    response,       \* the router's last response
    tool_result,    \* the ToolResult of the tool call in progress
    raised,         \* the exception run raised to its caller ("None" when none)
    result,         \* the SessionResult run returned
    \* ---- construction-time inputs ----
    config,         \* AgentKernel._config
    manifests,      \* ToolRegistry._manifests: registered name -> permissions
    task_hit,       \* whether the task matches an injection pattern
    request,        \* the SessionRequest's per-run overrides
    \* ---- the store (sqlite.py) ----
    session_row,    \* the session's row of table sessions
    conversation,   \* kv_memory["conv_<session_id>"]
    steps,          \* the session's rows of table steps
    events,         \* the session's rows of table audit_events
    \* ---- observations ----
    logs,           \* names of the log records written by run
    model_calls,    \* the router calls made: step, cost before, outcome
    sandbox_calls,  \* the sandbox invocations made
    write_failed,   \* some store write raised AuditWriteFailureError during run
    read_failed,    \* some store read raised MemoryCorruptionError during run
    calls_at_fail,  \* <<router calls, sandbox calls>> made when the first write failed
    exc_log,        \* the exceptions raised inside run, in order
    \* ---- a SQLiteStorage used on its own (sqlite.py) ----
    is_open,        \* the connection is open
    ev_rows,        \* table audit_events, in rowid order
    st_rows,        \* table steps, in rowid order
    chain_hashes,   \* SQLiteStorage._chain_hashes: key -> hash
    step_chain_hashes, \* SQLiteStorage._step_chain_hashes: session_id -> hash
    writes_made,    \* number of write calls made on the store
    store_op,       \* the last call made on the store
    \* ---- a CircuitBreaker used on its own (circuit_breaker.py) ----
    breaker,        \* the CircuitBreaker's fields
    monotonic,      \* time.monotonic(), in seconds
    cb_op,          \* the last call made on the breaker, and the breaker before it
    cb_log,         \* times of all failures recorded; how many had been recorded
                    \* at the last recorded success or reset, and at the last
                    \* move to OPEN
    \* ---- a ModelRouter used on its own (router.py) ----
    router,         \* ModelRouter.call: its position, its locals, what it did
    \* ---- run_tool_sandboxed called on its own (sandbox.py) ----
    sandbox,        \* the call: its inputs, its position, what it did
    \* ---- the MemoryInterface of a SQLiteStorage used on its own (sqlite.py) ----
    memory          \* table kv_memory, and the last call made on it

fsm_vars    == <<state, history, fsm_last>>
local_vars  == <<step_count, total_cost, final_answer, error_type, error_msg,
                 exc, response, tool_result, raised, result>>
input_vars  == <<config, manifests, task_hit, request>>
store_vars  == <<session_row, conversation, steps, events>>
obs_vars    == <<logs, model_calls, sandbox_calls, write_failed, read_failed,
                 calls_at_fail, exc_log>>
chain_vars  == <<is_open, ev_rows, st_rows, chain_hashes, step_chain_hashes,
                 writes_made, store_op>>
breaker_vars == <<breaker, monotonic, cb_op, cb_log>>
router_vars == <<router>>
sandbox_vars == <<sandbox>>
memory_vars == <<memory>>
kernel_vars == <<state, history, fsm_last, pc, step_count, total_cost,
                 final_answer, error_type, error_msg, exc, response, tool_result,
                 raised, result, config, manifests, task_hit, request, session_row,
                 conversation, steps, events, logs, model_calls, sandbox_calls,
                 write_failed, read_failed, calls_at_fail, exc_log>>
vars == <<state, history, fsm_last, pc, step_count, total_cost, final_answer,
          error_type, error_msg, exc, response, tool_result, raised, result,
          config, manifests, task_hit, request, session_row, conversation, steps, events,
          logs, model_calls, sandbox_calls, write_failed, read_failed,
          calls_at_fail, exc_log, is_open, ev_rows, st_rows, chain_hashes,
          step_chain_hashes, writes_made, store_op, breaker, monotonic, cb_op,
          cb_log, router, sandbox, memory>>

----------------------------------------------------------------------------
(* Bounds of the model *)

\* largest config.max_steps tried
MaxSteps == 2
\* largest config.max_cost_usd tried, in cost units
MaxBudget == 1
\* cost of a model call that is charged for, in cost units
MaxStepCost == 1
\* longest transition history of the free-standing FSM
MaxHistory == 7
\* most write calls made on the free-standing store
MaxWrites == 2
\* latest timestamp an audit event carries
MaxTime == 2
\* largest failure_threshold tried
MaxThreshold == 2
\* largest window_seconds tried
MaxWindow == 2
\* largest recovery_seconds tried
MaxRecovery == 2
\* latest reading of the monotonic clock, in seconds
MaxClock == 3
\* most failures recorded with the free-standing breaker
MaxFailures == 3
\* most calls made on the free-standing router
MaxCalls == 2
\* calls made on the MemoryInterface of a store used on its own
MaxMemoryOps == 3

----------------------------------------------------------------------------
(* aria/models/types.py: SessionStatus; aria/kernel/fsm.py *)

SessionStatus == {"IDLE", "RUNNING", "WAITING", "DONE", "FAILED", "CANCELLED"}

\* A deliberately wrong table: DONE may be left for RUNNING.
VALID_reopen ==
    [s \in SessionStatus |->
        CASE s = "IDLE"    -> {"RUNNING", "CANCELLED"}
          [] s = "RUNNING" -> {"WAITING", "DONE", "FAILED", "CANCELLED"}
          [] s = "WAITING" -> {"RUNNING", "FAILED", "CANCELLED"}
          [] s = "DONE"    -> {"RUNNING"}
          [] OTHER         -> {}]

\* A deliberately wrong table: WAITING cannot be cancelled.
VALID_no_cancel ==
    [s \in SessionStatus |->
        CASE s = "IDLE"    -> {"RUNNING", "CANCELLED"}
          [] s = "RUNNING" -> {"WAITING", "DONE", "FAILED", "CANCELLED"}
          [] s = "WAITING" -> {"RUNNING", "FAILED"}
          [] OTHER         -> {}]

\* _VALID
VALID ==
    [s \in SessionStatus |->
        CASE s = "IDLE"    -> {"RUNNING", "CANCELLED"}
          [] s = "RUNNING" -> {"WAITING", "DONE", "FAILED", "CANCELLED"}
          [] s = "WAITING" -> {"RUNNING", "FAILED", "CANCELLED"}
          [] OTHER         -> {}]

\* is_terminal with DONE forgotten
is_terminal_no_done(st) == st \in {"FAILED", "CANCELLED"}

\* is_terminal that never reports a terminal state
is_terminal_never(st) == st \in {}

\* SessionFSM.is_terminal
is_terminal(st) == st \in {"DONE", "FAILED", "CANCELLED"}

\* SessionFSM.transition on the FSM <<st, hist>>: the FSM afterwards and
\* the exception raised ("None" when the transition is made).
transition(st, hist, to_state) ==
    IF to_state \notin VALID[st]
    THEN [state |-> st, history |-> hist, exc |-> "InvalidStateTransitionError"]
    ELSE [state |-> to_state, history |-> Append(hist, <<st, to_state>>),
          exc |-> "None"]

\* No request made yet on the free-standing FSM.
NoRequest == [from |-> "IDLE", to |-> "IDLE", exc |-> "None", made |-> FALSE]

----------------------------------------------------------------------------
(* aria/models/errors.py: the exception hierarchy *)

\* The base class of each exception class the kernel can meet
\* ("Exception" is the root; ValueError stands for the built-in errors).
Parent ==
    [e \in {"ARIAError", "ValidationError", "ToolInputValidationError",
            "ToolOutputValidationError", "ModelOutputValidationError",
            "ManifestValidationError", "SecurityError", "PathTraversalError",
            "PermissionDeniedError",
            "UnknownToolError", "SandboxError", "ToolTimeoutError",
            "ToolSandboxError", "ProviderError", "ModelProviderExhaustedError",
            "CircuitBreakerOpenError", "ModelProviderError",
            "ModelRateLimitError", "ModelTimeoutError", "StateMachineError",
            "InvalidStateTransitionError", "LimitError",
            "StepLimitExceededError", "CostBudgetExceededError",
            "StorageError", "AuditWriteFailureError", "MemoryCorruptionError",
            "ValueError"} |->
        CASE e \in {"ToolInputValidationError", "ToolOutputValidationError",
                    "ModelOutputValidationError",
                    "ManifestValidationError"}          -> "ValidationError"
          [] e \in {"PathTraversalError", "PermissionDeniedError",
                    "UnknownToolError"}                 -> "SecurityError"
          [] e \in {"ToolTimeoutError", "ToolSandboxError"} -> "SandboxError"
          [] e \in {"ModelProviderExhaustedError",
                    "CircuitBreakerOpenError", "ModelProviderError",
                    "ModelRateLimitError",
                    "ModelTimeoutError"}                -> "ProviderError"
          [] e = "InvalidStateTransitionError"          -> "StateMachineError"
          [] e \in {"StepLimitExceededError",
                    "CostBudgetExceededError"}          -> "LimitError"
          [] e \in {"AuditWriteFailureError",
                    "MemoryCorruptionError"}            -> "StorageError"
          [] e \in {"ValidationError", "SecurityError", "SandboxError",
                    "ProviderError", "StateMachineError", "LimitError",
                    "StorageError"}                     -> "ARIAError"
          [] OTHER                                      -> "Exception"]

\* The classes of an exception of class e: e and its bases.
RECURSIVE Bases(_)
Bases(e) == IF e = "Exception" THEN {"Exception"} ELSE {e} \cup Bases(Parent[e])

\* isinstance(exception of class e, one of the classes cs)
IsInstance(e, cs) == Bases(e) \cap cs # {}

----------------------------------------------------------------------------
(* aria/tools/registry.py *)

ToolPermission == {"none", "fs_read", "fs_write", "network", "shell"}

\* KernelConfig.allowed_permissions, the default
DefaultPermissions == {"none", "fs_read", "fs_write"}

\* a policy with fs_write revoked
ReadOnlyPermissions == {"none", "fs_read"}

\* manifest.permissions of the built-in tools
BuiltinPermissions ==
    [t \in {"read_file", "write_file"} |->
        IF t = "read_file" THEN {"fs_read"} ELSE {"fs_write"}]

\* BUILTIN_TOOLS, in registration order
BUILTIN_TOOLS == <<"read_file", "write_file">>

\* the tool names a model may ask for: the built-in ones and one nobody registered
ToolNames == {"read_file", "write_file", "no_such_tool"}

EmptyRegistry == [t \in {} |-> {}]

\* ToolRegistry._register for the tool `name`, under the registry's allowed
\* permissions: the manifests afterwards and the exception raised.
register(ms, name, allowed) ==
    IF BuiltinPermissions[name] \ allowed # {}
    THEN [manifests |-> ms, exc |-> "PermissionDeniedError"]
    ELSE IF name \in DOMAIN ms
    THEN [manifests |-> ms, exc |-> "ManifestValidationError"]
    ELSE [manifests |-> [t \in DOMAIN ms \cup {name} |->
                            IF t = name THEN BuiltinPermissions[name] ELSE ms[t]],
          exc |-> "None"]

\* ToolRegistry.build: registers BUILTIN_TOOLS[i..], stopping at the first raise.
RECURSIVE build_from(_, _, _)
build_from(ms, i, allowed) ==
    IF i > Len(BUILTIN_TOOLS) THEN [manifests |-> ms, exc |-> "None"]
    ELSE LET r == register(ms, BUILTIN_TOOLS[i], allowed)
         IN  IF r.exc # "None" THEN r ELSE build_from(r.manifests, i + 1, allowed)

build(allowed) == build_from(EmptyRegistry, 1, allowed)

\* ToolRegistry.has_tool
has_tool(ms, name) == name \in DOMAIN ms

\* The kernel's dispatch-time check, without the permission test.
dispatch_check_registered_only(ms, name, allowed) ==
    IF ~has_tool(ms, name) THEN "UnknownToolError" ELSE "None"

\* kernel.py 170-177: the exception the kernel raises before dispatching a call
\* of tool `name` ("None" when the call may go ahead).
dispatch_check(ms, name, allowed) ==
    IF ~has_tool(ms, name) THEN "UnknownToolError"
    ELSE IF ms[name] \ allowed # {} THEN "PermissionDeniedError"
    ELSE "None"

----------------------------------------------------------------------------
(* aria/memory/sqlite.py: the operations the kernel uses.  Costs are      *)
(* counted in whole cost units (one unit = 1e-6 USD, the precision the    *)
(* kernel rounds to when it syncs).                                       *)

NoRow == [status |-> "NONE", total_steps |-> 0, total_cost_usd |-> 0,
          finished |-> FALSE, error_type |-> "None", error_msg |-> "None"]

\* SQLiteStorage.create_session: INSERT of the row, status IDLE
create_session ==
    [status |-> "IDLE", total_steps |-> 0, total_cost_usd |-> 0,
     finished |-> FALSE, error_type |-> "None", error_msg |-> "None"]

\* update_session_status that stamps finished_at only for DONE
update_session_status_done_only(row, status, total_steps, cost, etype, emsg) ==
    IF row.status = "NONE" THEN row
    ELSE [status |-> status, total_steps |-> total_steps,
          total_cost_usd |-> cost,
          finished |-> status = "DONE",
          error_type |-> etype, error_msg |-> emsg]

\* SQLiteStorage.update_session_status: UPDATE of the row (no row, no effect)
update_session_status(row, status, total_steps, cost, etype, emsg) ==
    IF row.status = "NONE" THEN row
    ELSE [status |-> status, total_steps |-> total_steps,
          total_cost_usd |-> cost,
          finished |-> status \in {"DONE", "FAILED", "CANCELLED"},
          error_type |-> etype, error_msg |-> emsg]

\* Message(role, content, tool_name, tool_call_id)
Message(role, content, tool_name, tool_call_id) ==
    [role |-> role, content |-> content, tool_name |-> tool_name,
     tool_call_id |-> tool_call_id]

\* SQLiteStorage.append_message: the stored list with the message appended
append_message(conv, m) == Append(conv, m)

\* SQLiteStorage.write_step_start: INSERT of the step row
write_step_start(rows, n) ==
    Append(rows, [step_number |-> n, step_type |-> "model_call",
                  status |-> "started", cost_usd |-> 0, tool_name |-> "None"])

\* write_step_end that stores the cost and leaves the status alone
write_step_end_cost_only(rows, n, step_type, status, cost, tool_name) ==
    [i \in 1..Len(rows) |->
        IF rows[i].step_number = n
        THEN [rows[i] EXCEPT !.cost_usd = cost]
        ELSE rows[i]]

\* SQLiteStorage.write_step_end: UPDATE of the row of step n.  The statement
\* sets status and cost_usd (and hashes, tokens, times); the step_type and
\* tool_name of the trace are not among its columns, so the row keeps the
\* ones write_step_start inserted.
write_step_end(rows, n, step_type, status, cost, tool_name) ==
    [i \in 1..Len(rows) |->
        IF rows[i].step_number = n
        THEN [rows[i] EXCEPT !.status = status, !.cost_usd = cost]
        ELSE rows[i]]

\* write_event that stores the new row in front of the older ones
write_event_in_front(evs, event_type, step_id) ==
    <<[event_type |-> event_type, step_id |-> step_id]>> \o evs

\* SQLiteStorage.write_event: INSERT of the event row (step_id 0 for None)
write_event(evs, event_type, step_id) ==
    Append(evs, [event_type |-> event_type, step_id |-> step_id])

\* the event types stored so far
EventTypes == {events[i].event_type : i \in 1..Len(events)}

----------------------------------------------------------------------------
(* aria/kernel/kernel.py: classification of exceptions *)

\* The except clause of run's try statement (kernel.py 212-254) that takes an
\* exception of class e, with AuditWriteFailureError falling to `except Exception`.
HandlerFor_swallow(e) ==
    IF IsInstance(e, {"StepLimitExceededError", "CostBudgetExceededError", "LimitError"})
    THEN "limit_exceeded"
    ELSE IF IsInstance(e, {"SecurityError", "PathTraversalError"})
    THEN "security_error"
    ELSE IF IsInstance(e, {"ModelProviderExhaustedError", "CircuitBreakerOpenError"})
    THEN "provider_failure"
    ELSE "unexpected_error"

\* The except clauses with the SecurityError clause left out.
HandlerFor_no_security(e) ==
    IF IsInstance(e, {"StepLimitExceededError", "CostBudgetExceededError", "LimitError"})
    THEN "limit_exceeded"
    ELSE IF IsInstance(e, {"ModelProviderExhaustedError", "CircuitBreakerOpenError"})
    THEN "provider_failure"
    ELSE IF IsInstance(e, {"AuditWriteFailureError"})
    THEN "audit_write_failure_halt"
    ELSE "unexpected_error"

\* The except clauses with the provider clause catching only exhaustion.
HandlerFor_exhausted_only(e) ==
    IF IsInstance(e, {"StepLimitExceededError", "CostBudgetExceededError", "LimitError"})
    THEN "limit_exceeded"
    ELSE IF IsInstance(e, {"SecurityError", "PathTraversalError"})
    THEN "security_error"
    ELSE IF IsInstance(e, {"ModelProviderExhaustedError"})
    THEN "provider_failure"
    ELSE IF IsInstance(e, {"AuditWriteFailureError"})
    THEN "audit_write_failure_halt"
    ELSE "unexpected_error"

\* The except clause of run's try statement (kernel.py 212-254) that takes an
\* exception of class e: the first clause, in source order, that matches.
HandlerFor(e) ==
    IF IsInstance(e, {"StepLimitExceededError", "CostBudgetExceededError", "LimitError"})
    THEN "limit_exceeded"
    ELSE IF IsInstance(e, {"SecurityError", "PathTraversalError"})
    THEN "security_error"
    ELSE IF IsInstance(e, {"ModelProviderExhaustedError", "CircuitBreakerOpenError"})
    THEN "provider_failure"
    ELSE IF IsInstance(e, {"AuditWriteFailureError"})
    THEN "audit_write_failure_halt"
    ELSE "unexpected_error"

\* _execute_tool's except clause (kernel.py 280-281)
execute_tool_catches(e) ==
    IsInstance(e, {"ToolTimeoutError", "ToolSandboxError",
                   "ToolInputValidationError", "PathTraversalError"})

\* The limit checks with the step test off by one.
limit_check_late(n, cost, cfg) ==
    IF n > cfg.max_steps + 1 THEN "StepLimitExceededError"
    ELSE IF cost > cfg.max_cost_usd THEN "CostBudgetExceededError"
    ELSE "None"

\* The limit checks with the cost test left out.
limit_check_no_cost(n, cost, cfg) ==
    IF n > cfg.max_steps THEN "StepLimitExceededError" ELSE "None"

\* kernel.py 119-124: the limit error raised at the head of iteration n
limit_check(n, cost, cfg) ==
    IF n > cfg.max_steps THEN "StepLimitExceededError"
    ELSE IF cost > cfg.max_cost_usd THEN "CostBudgetExceededError"
    ELSE "None"

\* The tool message with the error taken for data.
tool_content_always_data(tr) == "json(data)"

\* kernel.py 203-206: the content of the tool-role message for a ToolResult
tool_content(tr) == IF tr.ok THEN "json(data)" ELSE "ERROR: error_message"

\* what run_tool_sandboxed can raise (sandbox.py 180-238)
SandboxErrors == {"ToolInputValidationError", "PathTraversalError",
                  "ToolTimeoutError", "ToolSandboxError",
                  "ToolOutputValidationError"}

\* what ModelRouter.call can raise (router.py 33-73): exhaustion, an open
\* breaker, a non-retryable validation error, an unknown provider
RouterErrors == {"ModelProviderExhaustedError", "CircuitBreakerOpenError",
                 "ModelOutputValidationError", "ValueError"}

\* what _calculate_cost gives for a call (kernel.py 297-307): nothing for a
\* provider without a price, MaxStepCost units otherwise
StepCosts == {0, MaxStepCost}

\* RawModelResponse: the action, the tool asked for, the cost of the call
Responses ==
    [action : {"final_answer"}, tool_name : {"None"}, cost : StepCosts]
    \cup [action : {"tool_call"}, tool_name : ToolNames, cost : StepCosts]

NoResponse == [action |-> "none", tool_name |-> "None", cost |-> 0]

NoToolResult == [ok |-> FALSE, error_type |-> "None"]

NoResult == [status |-> "NONE", answer |-> "None", steps_taken |-> 0,
             total_cost_usd |-> 0, error_type |-> "None", error_message |-> "None"]

----------------------------------------------------------------------------
(* control flow and fault bookkeeping shared by the actions of run *)

Goto(l) == pc' = l /\ UNCHANGED <<exc, raised, exc_log>>

\* an exception raised inside run's try statement
Raise(e) == pc' = "except" /\ exc' = e /\ exc_log' = Append(exc_log, e)
            /\ UNCHANGED raised

\* an exception that leaves run
RaiseOut(e) == pc' = "end" /\ raised' = e /\ exc_log' = Append(exc_log, e)
               /\ UNCHANGED exc

WriteOk == UNCHANGED <<write_failed, calls_at_fail>>

WriteFails ==
    /\ write_failed' = TRUE
    /\ calls_at_fail' = IF write_failed THEN calls_at_fail
                        ELSE <<Len(model_calls), Len(sandbox_calls)>>

ReadOk == UNCHANGED read_failed

ReadFails == read_failed' = TRUE

\* no call on a free-standing store yet: a fresh database, just opened
NoStoreOp == [op |-> "open", session_id |-> "None", ok |-> TRUE, valid |-> {},
              reopened |-> FALSE]

EmptyDict == [k \in {} |-> ""]

\* SQLiteStorage.__init__ on a new database (sqlite.py 121-132)
StoreIdle ==
    /\ is_open = TRUE /\ ev_rows = <<>> /\ st_rows = <<>>
    /\ chain_hashes = EmptyDict /\ step_chain_hashes = EmptyDict
    /\ writes_made = 0 /\ store_op = NoStoreOp

\* CircuitBreaker.__init__ (circuit_breaker.py 18-31); opened_at is <<>> for
\* None and <<t>> for the time t
NewBreaker(provider, failure_threshold, window_seconds, recovery_seconds) ==
    [provider |-> provider, threshold |-> failure_threshold,
     window |-> window_seconds, recovery |-> recovery_seconds,
     state |-> "CLOSED", failures |-> <<>>, opened_at |-> <<>>]

\* the breaker the router makes for a provider (router.py 28): the defaults
DefaultBreaker == NewBreaker("p", 3, 60, 120)

\* no call on the breaker yet
NoRaise == [type |-> "None", provider |-> "None"]
NoBreakerOp(cb) == [op |-> "init", raised |-> NoRaise, before |-> cb, at |-> 0]

BreakerIdle ==
    /\ breaker = DefaultBreaker /\ monotonic = 0
    /\ cb_op = NoBreakerOp(DefaultBreaker)
    /\ cb_log = [times |-> <<>>, cleared |-> 0, opened |-> 0]

\* no exception raised by ModelRouter.call, no response returned by it
NoRouterRaise == [type |-> "None", attempts |-> 0, provider |-> "None"]
NoRouterResult == [call |-> 0, invocation |-> 0]

\* run_tool_sandboxed is not being called
NoSandboxCall == [pc |-> "off"]
SandboxIdle == sandbox = NoSandboxCall

\* table kv_memory of a new database, no call made on it
NoMessage == [role |-> "None", content |-> "None", tool_name |-> "None",
              tool_call_id |-> "None"]
NoMemoryOp == [op |-> "open", session_id |-> "None", message |-> NoMessage,
               ok |-> TRUE, n |-> 0]
MemoryIdle == memory = [kv |-> <<>>, op |-> NoMemoryOp]

\* ModelRouter.__init__ (router.py 23-29): no call made yet
RouterIdle ==
    router = [pc |-> "idle", calls |-> 0, provider |-> "None", attempt |-> 0,
              last_err |-> "None", result |-> NoRouterResult,
              raised |-> NoRouterRaise, invoked |-> <<>>, recorded |-> <<>>,
              slept |-> <<>>, rejected_at |-> 0]

KernelFrame == UNCHANGED <<fsm_last, config, manifests, task_hit, request,
                           is_open,
                           ev_rows, st_rows, chain_hashes, step_chain_hashes,
                           writes_made, store_op, breaker, monotonic, cb_op,
                           cb_log, router, sandbox, memory>>

----------------------------------------------------------------------------
(* AgentKernel.run (kernel.py 65-268) *)

\* The kernel's configurations: max_steps a positive int, max_cost_usd a
\* non-negative amount, allowed_permissions a policy.
Configs ==
    [max_steps : 1..MaxSteps, max_cost_usd : 0..MaxBudget,
     allowed_permissions : {DefaultPermissions, ReadOnlyPermissions},
     primary_provider : {"ollama"}, primary_model : {"tinyllama"}]

\* SessionRequest(task) with no override: None for the names, 0 for the
\* absent max_steps_override
DefaultRequest ==
    [provider_override |-> "None", model_override |-> "None",
     max_steps_override |-> 0]

\* the SessionRequests with overrides: a provider, a model, a step limit of 1
Requests ==
    [provider_override : {"None", "anthropic"},
     model_override : {"None", "claude"},
     max_steps_override : {0, 1}]

\* `override or primary` (kernel.py 104-105): None and "" are false
or_primary(override, primary) ==
    IF override \in {"None", ""} THEN primary ELSE override

\* The state when run is entered (kernel.py 67-71, 107-109): a registry that
\* build() completed under its own policy, a kernel configuration, a fresh
\* session in an open store.
RunEntered ==
    /\ state = "IDLE" /\ history = <<>> /\ fsm_last = NoRequest
    /\ pc = "create_session"
    /\ step_count = 0 /\ total_cost = 0
    /\ final_answer = "None" /\ error_type = "None" /\ error_msg = "None"
    /\ exc = "None" /\ response = NoResponse /\ tool_result = NoToolResult
    /\ raised = "None" /\ result = NoResult
    /\ \E policy \in {DefaultPermissions, ReadOnlyPermissions} :
          /\ build(policy).exc = "None"
          /\ manifests = build(policy).manifests
    /\ session_row = NoRow /\ conversation = <<>> /\ steps = <<>> /\ events = <<>>
    /\ logs = {} /\ model_calls = <<>> /\ sandbox_calls = <<>>
    /\ write_failed = FALSE /\ read_failed = FALSE /\ calls_at_fail = <<0, 0>>
    /\ exc_log = <<>>
    /\ StoreIdle
    /\ BreakerIdle
    /\ RouterIdle
    /\ SandboxIdle /\ MemoryIdle

\* run(SessionRequest(task)): any configuration, any task, no override
Init ==
    /\ RunEntered
    /\ config \in Configs
    /\ task_hit \in BOOLEAN
    /\ request = DefaultRequest

\* run(SessionRequest(task, provider_override, model_override,
\* max_steps_override)): any overrides, with the registry and the kernel
\* under the default policy, the largest budget, and a task that matches no
\* injection pattern
InitOverride ==
    /\ RunEntered
    /\ config \in {c \in Configs : /\ c.max_cost_usd = MaxBudget
                                   /\ c.allowed_permissions = DefaultPermissions}
    /\ manifests = build(DefaultPermissions).manifests
    /\ task_hit = FALSE
    /\ request \in Requests

\* kernel.py 73-78: create the session row; a failure is re-raised
CreateSession ==
    /\ pc = "create_session"
    /\ \/ /\ session_row' = create_session
          /\ Goto("scan") /\ WriteOk /\ UNCHANGED logs
       \/ /\ UNCHANGED session_row
          /\ RaiseOut("AuditWriteFailureError") /\ WriteFails
          /\ logs' = logs \cup {"session_create_failed"}
    /\ ReadOk /\ KernelFrame
    /\ UNCHANGED <<state, history, step_count, total_cost, final_answer,
                   error_type, error_msg, response, tool_result, result,
                   conversation, steps, events, model_calls, sandbox_calls>>

\* kernel.py 80-85: the injection scan warns and does not block
InjectionScan ==
    /\ pc = "scan"
    /\ IF ~task_hit
       THEN Goto("session_start") /\ WriteOk /\ UNCHANGED <<events, logs>>
       ELSE \/ /\ events' = write_event(events, "injection_scan_warn", 0)
               /\ Goto("session_start") /\ WriteOk
               /\ logs' = logs \cup {"injection_scan_hit"}
            \/ /\ UNCHANGED events
               /\ RaiseOut("AuditWriteFailureError") /\ WriteFails
               /\ logs' = logs \cup {"injection_scan_hit", "audit_emit_failed"}
    /\ ReadOk /\ KernelFrame
    /\ UNCHANGED <<state, history, step_count, total_cost, final_answer,
                   error_type, error_msg, response, tool_result, result,
                   session_row, conversation, steps, model_calls, sandbox_calls>>

\* kernel.py 87-91: emit session_start
EmitSessionStart ==
    /\ pc = "session_start"
    /\ \/ /\ events' = write_event(events, "session_start", 0)
          /\ Goto("start_running") /\ WriteOk /\ UNCHANGED logs
       \/ /\ UNCHANGED events
          /\ RaiseOut("AuditWriteFailureError") /\ WriteFails
          /\ logs' = logs \cup {"audit_emit_failed"}
    /\ ReadOk /\ KernelFrame
    /\ UNCHANGED <<state, history, step_count, total_cost, final_answer,
                   error_type, error_msg, response, tool_result, result,
                   session_row, conversation, steps, model_calls, sandbox_calls>>

\* kernel.py 93-94: IDLE -> RUNNING, sync the session row
StartRunning ==
    /\ pc = "start_running"
    /\ LET r == transition(state, history, "RUNNING")
       IN  IF r.exc # "None"
           THEN /\ RaiseOut(r.exc) /\ WriteOk
                /\ UNCHANGED <<state, history, session_row, logs>>
           ELSE /\ state' = r.state /\ history' = r.history
                /\ \/ /\ session_row' = update_session_status(session_row, r.state,
                                            step_count, total_cost, "None", "None")
                      /\ Goto("append_task") /\ WriteOk /\ UNCHANGED logs
                   \/ /\ UNCHANGED session_row
                      /\ RaiseOut("AuditWriteFailureError") /\ WriteFails
                      /\ logs' = logs \cup {"session_sync_failed"}
    /\ ReadOk /\ KernelFrame
    /\ UNCHANGED <<step_count, total_cost, final_answer, error_type, error_msg,
                   response, tool_result, result, conversation, steps, events,
                   model_calls, sandbox_calls>>

\* kernel.py 96: append the task as the user message (a read, then a write)
AppendTask ==
    /\ pc = "append_task"
    /\ \/ /\ conversation' = append_message(conversation,
                                  Message("user", "task", "None", 0))
          /\ Goto("build_context") /\ WriteOk /\ ReadOk
       \/ /\ UNCHANGED conversation
          /\ RaiseOut("MemoryCorruptionError") /\ WriteOk /\ ReadFails
       \/ /\ UNCHANGED conversation
          /\ RaiseOut("AuditWriteFailureError") /\ WriteFails /\ ReadOk
    /\ KernelFrame
    /\ UNCHANGED <<state, history, step_count, total_cost, final_answer,
                   error_type, error_msg, response, tool_result, result,
                   session_row, steps, events, logs, model_calls, sandbox_calls>>

\* kernel.py 98-109: the first execution context reads the history
BuildContext ==
    /\ pc = "build_context"
    /\ \/ Goto("loop") /\ ReadOk
       \/ RaiseOut("MemoryCorruptionError") /\ ReadFails
    /\ WriteOk /\ KernelFrame
    /\ UNCHANGED <<state, history, step_count, total_cost, final_answer,
                   error_type, error_msg, response, tool_result, result,
                   session_row, conversation, steps, events, logs, model_calls,
                   sandbox_calls>>

\* kernel.py 112-124: the loop test, the step counter, the history read and
\* the limit checks
LoopHead ==
    /\ pc = "loop"
    /\ IF is_terminal(state)
       THEN Goto("teardown") /\ ReadOk /\ UNCHANGED step_count
       ELSE /\ step_count' = step_count + 1
            /\ \/ Raise("MemoryCorruptionError") /\ ReadFails
               \/ /\ ReadOk
                  /\ LET e == limit_check(step_count + 1, total_cost, config)
                     IN  IF e # "None" THEN Raise(e) ELSE Goto("step_start")
    /\ WriteOk /\ KernelFrame
    /\ UNCHANGED <<state, history, total_cost, final_answer, error_type,
                   error_msg, response, tool_result, result, session_row,
                   conversation, steps, events, logs, model_calls, sandbox_calls>>

\* kernel.py 126-134: insert the step row
WriteStepStart ==
    /\ pc = "step_start"
    /\ \/ /\ steps' = write_step_start(steps, step_count)
          /\ Goto("router_call") /\ WriteOk
       \/ /\ UNCHANGED steps
          /\ Raise("AuditWriteFailureError") /\ WriteFails
    /\ ReadOk /\ KernelFrame
    /\ UNCHANGED <<state, history, step_count, total_cost, final_answer,
                   error_type, error_msg, response, tool_result, result,
                   session_row, conversation, events, logs, model_calls,
                   sandbox_calls>>

\* kernel.py 136-155: the model call and the cost accounting
RouterCall ==
    /\ pc = "router_call"
    /\ \/ \E r \in Responses :
            /\ response' = r
            /\ total_cost' = total_cost + r.cost
            /\ model_calls' = Append(model_calls,
                    [step |-> step_count, before |-> total_cost, cost |-> r.cost,
                     action |-> r.action, tool_name |-> r.tool_name,
                     provider |-> or_primary(request.provider_override,
                                             config.primary_provider),
                     model |-> or_primary(request.model_override,
                                          config.primary_model)])
            /\ Goto("dispatch")
       \/ \E e \in RouterErrors :
            /\ Raise(e)
            /\ model_calls' = Append(model_calls,
                    [step |-> step_count, before |-> total_cost, cost |-> 0,
                     action |-> e, tool_name |-> "None",
                     provider |-> or_primary(request.provider_override,
                                             config.primary_provider),
                     model |-> or_primary(request.model_override,
                                          config.primary_model)])
            /\ UNCHANGED <<response, total_cost>>
    /\ ReadOk /\ WriteOk /\ KernelFrame
    /\ UNCHANGED <<state, history, step_count, final_answer, error_type,
                   error_msg, tool_result, result, session_row, conversation,
                   steps, events, logs, sandbox_calls>>

\* kernel.py 157, 166-177: branch on the action; for a tool call, the
\* registration and permission checks
Dispatch ==
    /\ pc = "dispatch"
    /\ IF response.action = "final_answer"
       THEN Goto("final_step_end")
       ELSE LET e == dispatch_check(manifests, response.tool_name,
                                    config.allowed_permissions)
            IN  IF e # "None" THEN Raise(e) ELSE Goto("tool_step_end")
    /\ ReadOk /\ WriteOk /\ KernelFrame
    /\ UNCHANGED <<state, history, step_count, total_cost, final_answer,
                   error_type, error_msg, response, tool_result, result,
                   session_row, conversation, steps, events, logs, model_calls,
                   sandbox_calls>>

\* kernel.py 157-160: finalize the step as final_answer/completed
FinalStepEnd ==
    /\ pc = "final_step_end"
    /\ \/ /\ steps' = write_step_end(steps, step_count, "final_answer",
                                     "completed", response.cost, "None")
          /\ Goto("final_append") /\ WriteOk
       \/ /\ UNCHANGED steps
          /\ Raise("AuditWriteFailureError") /\ WriteFails
    /\ ReadOk /\ KernelFrame
    /\ UNCHANGED <<state, history, step_count, total_cost, final_answer,
                   error_type, error_msg, response, tool_result, result,
                   session_row, conversation, events, logs, model_calls,
                   sandbox_calls>>

\* kernel.py 161-164: keep the answer, append the assistant message, -> DONE
FinalAppend ==
    /\ pc = "final_append"
    /\ final_answer' = "answer"
    /\ \/ /\ conversation' = append_message(conversation,
                                  Message("assistant", "answer", "None", 0))
          /\ WriteOk /\ ReadOk
          /\ LET r == transition(state, history, "DONE")
             IN  IF r.exc # "None"
                 THEN Raise(r.exc) /\ UNCHANGED <<state, history>>
                 ELSE Goto("loop") /\ state' = r.state /\ history' = r.history
       \/ /\ UNCHANGED <<conversation, state, history>>
          /\ Raise("MemoryCorruptionError") /\ WriteOk /\ ReadFails
       \/ /\ UNCHANGED <<conversation, state, history>>
          /\ Raise("AuditWriteFailureError") /\ WriteFails /\ ReadOk
    /\ KernelFrame
    /\ UNCHANGED <<step_count, total_cost, error_type, error_msg, response,
                   tool_result, result, session_row, steps, events, logs,
                   model_calls, sandbox_calls>>

\* kernel.py 179-183: finalize the step as tool_call/completed
ToolStepEnd ==
    /\ pc = "tool_step_end"
    /\ \/ /\ steps' = write_step_end(steps, step_count, "tool_call",
                                     "completed", response.cost, response.tool_name)
          /\ Goto("tool_sentinel") /\ WriteOk
       \/ /\ UNCHANGED steps
          /\ Raise("AuditWriteFailureError") /\ WriteFails
    /\ ReadOk /\ KernelFrame
    /\ UNCHANGED <<state, history, step_count, total_cost, final_answer,
                   error_type, error_msg, response, tool_result, result,
                   session_row, conversation, events, logs, model_calls,
                   sandbox_calls>>

\* kernel.py 185-189: append the assistant sentinel carrying the tool_call_id
ToolAppendSentinel ==
    /\ pc = "tool_sentinel"
    /\ \/ /\ conversation' = append_message(conversation,
                                  Message("assistant", "[Tool call]", "None", step_count))
          /\ Goto("tool_waiting") /\ WriteOk /\ ReadOk
       \/ /\ UNCHANGED conversation
          /\ Raise("MemoryCorruptionError") /\ WriteOk /\ ReadFails
       \/ /\ UNCHANGED conversation
          /\ Raise("AuditWriteFailureError") /\ WriteFails /\ ReadOk
    /\ KernelFrame
    /\ UNCHANGED <<state, history, step_count, total_cost, final_answer,
                   error_type, error_msg, response, tool_result, result,
                   session_row, steps, events, logs, model_calls, sandbox_calls>>

\* kernel.py 191-192 (to_state WAITING, then "tool_call_start") and 200-201
\* (to_state RUNNING, then "tool_append"): a transition and a sync
TransitionAndSync(to_state, next) ==
    LET r == transition(state, history, to_state)
    IN  IF r.exc # "None"
        THEN /\ Raise(r.exc) /\ WriteOk
             /\ UNCHANGED <<state, history, session_row, logs>>
        ELSE /\ state' = r.state /\ history' = r.history
             /\ \/ /\ session_row' = update_session_status(session_row, r.state,
                                         step_count, total_cost, "None", "None")
                   /\ Goto(next) /\ WriteOk /\ UNCHANGED logs
                \/ /\ UNCHANGED session_row
                   /\ Raise("AuditWriteFailureError") /\ WriteFails
                   /\ logs' = logs \cup {"session_sync_failed"}

\* kernel.py 191-192: RUNNING -> WAITING, sync
ToolWaiting ==
    /\ pc = "tool_waiting"
    /\ TransitionAndSync("WAITING", "tool_call_start")
    /\ ReadOk /\ KernelFrame
    /\ UNCHANGED <<step_count, total_cost, final_answer, error_type, error_msg,
                   response, tool_result, result, conversation, steps, events,
                   model_calls, sandbox_calls>>

\* kernel.py 274-276: _execute_tool emits tool_call_start
EmitToolCallStart ==
    /\ pc = "tool_call_start"
    /\ \/ /\ events' = write_event(events, "tool_call_start", step_count)
          /\ Goto("sandbox") /\ WriteOk /\ UNCHANGED logs
       \/ /\ UNCHANGED events
          /\ Raise("AuditWriteFailureError") /\ WriteFails
          /\ logs' = logs \cup {"audit_emit_failed"}
    /\ ReadOk /\ KernelFrame
    /\ UNCHANGED <<state, history, step_count, total_cost, final_answer,
                   error_type, error_msg, response, tool_result, result,
                   session_row, conversation, steps, model_calls, sandbox_calls>>

\* the record of a sandbox invocation that raised e ("None": it returned)
SandboxCall(e) ==
    [tool |-> response.tool_name, state |-> state, step |-> step_count,
     raised |-> e]

\* kernel.py 277-292: the sandbox runs the tool; _execute_tool turns the
\* errors it catches into ToolResult(ok=False)
RunSandbox ==
    /\ pc = "sandbox"
    /\ \/ \E ok \in BOOLEAN :
            /\ tool_result' = [ok |-> ok,
                               error_type |-> IF ok THEN "None" ELSE "ToolExecutionError"]
            /\ sandbox_calls' = Append(sandbox_calls, SandboxCall("None"))
            /\ Goto("tool_call_end") /\ UNCHANGED logs
       \/ \E e \in SandboxErrors :
          /\ sandbox_calls' = Append(sandbox_calls, SandboxCall(e))
          /\
            IF execute_tool_catches(e)
            THEN /\ tool_result' = [ok |-> FALSE, error_type |-> e]
                 /\ pc' = "tool_call_failed"
                 /\ exc_log' = Append(exc_log, e)
                 /\ UNCHANGED <<exc, raised>>
                 /\ logs' = logs \cup {"tool_failed"}
            ELSE Raise(e) /\ UNCHANGED <<tool_result, logs>>
    /\ ReadOk /\ WriteOk /\ KernelFrame
    /\ UNCHANGED <<state, history, step_count, total_cost, final_answer,
                   error_type, error_msg, response, result, session_row,
                   conversation, steps, events, model_calls>>

\* kernel.py 285-288 and 293-295: _execute_tool emits tool_call_failed after
\* a caught error, tool_call_end after a result
EmitToolOutcome ==
    /\ pc \in {"tool_call_end", "tool_call_failed"}
    /\ \/ /\ events' = write_event(events, pc, step_count)
          /\ Goto("tool_running") /\ WriteOk /\ UNCHANGED logs
       \/ /\ UNCHANGED events
          /\ Raise("AuditWriteFailureError") /\ WriteFails
          /\ logs' = logs \cup {"audit_emit_failed"}
    /\ ReadOk /\ KernelFrame
    /\ UNCHANGED <<state, history, step_count, total_cost, final_answer,
                   error_type, error_msg, response, tool_result, result,
                   session_row, conversation, steps, model_calls, sandbox_calls>>

\* kernel.py 200-201: WAITING -> RUNNING, sync
ToolRunning ==
    /\ pc = "tool_running"
    /\ TransitionAndSync("RUNNING", "tool_append")
    /\ ReadOk /\ KernelFrame
    /\ UNCHANGED <<step_count, total_cost, final_answer, error_type, error_msg,
                   response, tool_result, result, conversation, steps, events,
                   model_calls, sandbox_calls>>

\* kernel.py 203-210: append the tool-role message
ToolAppendResult ==
    /\ pc = "tool_append"
    /\ \/ /\ conversation' = append_message(conversation,
                 Message("tool", tool_content(tool_result),
                         response.tool_name, step_count))
          /\ Goto("loop") /\ WriteOk /\ ReadOk
       \/ /\ UNCHANGED conversation
          /\ Raise("MemoryCorruptionError") /\ WriteOk /\ ReadFails
       \/ /\ UNCHANGED conversation
          /\ Raise("AuditWriteFailureError") /\ WriteFails /\ ReadOk
    /\ KernelFrame
    /\ UNCHANGED <<state, history, step_count, total_cost, final_answer,
                   error_type, error_msg, response, tool_result, result,
                   session_row, steps, events, logs, model_calls, sandbox_calls>>

\* kernel.py 212-234 and 245-254: the handlers that emit an event and move
\* the FSM to FAILED (the event's name is the handler's)
HandleError ==
    /\ pc = "except"
    /\ HandlerFor(exc) # "audit_write_failure_halt"
    /\ error_type' = exc
    /\ \/ /\ events' = write_event(events, HandlerFor(exc), 0)
          /\ WriteOk
          /\ error_msg' = IF HandlerFor(exc) = "unexpected_error"
                          THEN "Unexpected error. Check audit log." ELSE exc
          /\ logs' = logs \cup {HandlerFor(exc)}
          /\ IF is_terminal(state)
             THEN Goto("teardown") /\ UNCHANGED <<state, history>>
             ELSE LET r == transition(state, history, "FAILED")
                  IN  IF r.exc # "None"
                      THEN RaiseOut(r.exc) /\ UNCHANGED <<state, history>>
                      ELSE Goto("teardown") /\ state' = r.state /\ history' = r.history
       \/ /\ UNCHANGED <<events, state, history>>
          /\ RaiseOut("AuditWriteFailureError") /\ WriteFails
          /\ error_msg' = IF HandlerFor(exc) = "unexpected_error"
                          THEN error_msg ELSE exc
          /\ logs' = logs \cup {HandlerFor(exc), "audit_emit_failed"}
    /\ ReadOk /\ KernelFrame
    /\ UNCHANGED <<step_count, total_cost, final_answer, response, tool_result,
                   result, session_row, conversation, steps, model_calls,
                   sandbox_calls>>

\* kernel.py 236-243: log audit_write_failure_halt, FSM -> FAILED, sync the
\* row with the error fields, re-raise
HandleAuditFailure ==
    /\ pc = "except"
    /\ HandlerFor(exc) = "audit_write_failure_halt"
    /\ LET r == IF is_terminal(state)
                THEN [state |-> state, history |-> history, exc |-> "None"]
                ELSE transition(state, history, "FAILED")
       IN  IF r.exc # "None"
           THEN /\ RaiseOut(r.exc) /\ WriteOk
                /\ UNCHANGED <<state, history, session_row>>
                /\ logs' = logs \cup {"audit_write_failure_halt"}
           ELSE /\ state' = r.state /\ history' = r.history
                /\ \/ /\ session_row' = update_session_status(session_row, r.state,
                              step_count, total_cost, "AuditWriteFailureError",
                              "Audit write failed")
                      /\ WriteOk
                      /\ logs' = logs \cup {"audit_write_failure_halt"}
                      /\ RaiseOut(exc)
                   \/ /\ UNCHANGED session_row
                      /\ WriteFails
                      /\ logs' = logs \cup {"audit_write_failure_halt",
                                            "session_sync_failed"}
                      /\ RaiseOut("AuditWriteFailureError")
    /\ ReadOk /\ KernelFrame
    /\ UNCHANGED <<step_count, total_cost, final_answer, error_type, error_msg,
                   response, tool_result, result, conversation, steps, events,
                   model_calls, sandbox_calls>>

\* kernel.py 256-260: emit session_end
EmitSessionEnd ==
    /\ pc = "teardown"
    /\ \/ /\ events' = write_event(events, "session_end", 0)
          /\ Goto("final_sync") /\ WriteOk /\ UNCHANGED logs
       \/ /\ UNCHANGED events
          /\ RaiseOut("AuditWriteFailureError") /\ WriteFails
          /\ logs' = logs \cup {"audit_emit_failed"}
    /\ ReadOk /\ KernelFrame
    /\ UNCHANGED <<state, history, step_count, total_cost, final_answer,
                   error_type, error_msg, response, tool_result, result,
                   session_row, conversation, steps, model_calls, sandbox_calls>>

\* kernel.py 261-268: the last sync, then the SessionResult
FinalSync ==
    /\ pc = "final_sync"
    /\ \/ /\ session_row' = update_session_status(session_row, state, step_count,
                                                  total_cost, error_type, error_msg)
          /\ result' = [status |-> state, answer |-> final_answer,
                        steps_taken |-> step_count, total_cost_usd |-> total_cost,
                        error_type |-> error_type, error_message |-> error_msg]
          /\ pc' = "end" /\ UNCHANGED <<exc, raised, exc_log>>
          /\ WriteOk /\ UNCHANGED logs
       \/ /\ UNCHANGED <<session_row, result>>
          /\ RaiseOut("AuditWriteFailureError") /\ WriteFails
          /\ logs' = logs \cup {"session_sync_failed"}
    /\ ReadOk /\ KernelFrame
    /\ UNCHANGED <<state, history, step_count, total_cost, final_answer,
                   error_type, error_msg, response, tool_result, conversation,
                   steps, events, model_calls, sandbox_calls>>

Next ==
    \/ CreateSession \/ InjectionScan \/ EmitSessionStart \/ StartRunning
    \/ AppendTask \/ BuildContext \/ LoopHead \/ WriteStepStart \/ RouterCall
    \/ Dispatch \/ FinalStepEnd \/ FinalAppend \/ ToolStepEnd
    \/ ToolAppendSentinel \/ ToolWaiting \/ EmitToolCallStart \/ RunSandbox
    \/ EmitToolOutcome \/ ToolRunning \/ ToolAppendResult \/ HandleError
    \/ HandleAuditFailure \/ EmitSessionEnd \/ FinalSync

Spec == Init /\ [][Next]_vars

SpecOverride == InitOverride /\ [][Next]_vars

----------------------------------------------------------------------------
(* A SessionFSM on its own, asked for arbitrary transitions *)

\* no kernel is running: the variables of run at rest
KernelOff ==
    /\ state = "IDLE" /\ history = <<>> /\ fsm_last = NoRequest
    /\ pc = "off"
    /\ step_count = 0 /\ total_cost = 0
    /\ final_answer = "None" /\ error_type = "None" /\ error_msg = "None"
    /\ exc = "None" /\ response = NoResponse /\ tool_result = NoToolResult
    /\ raised = "None" /\ result = NoResult
    /\ config = [max_steps |-> 1, max_cost_usd |-> 0,
                 allowed_permissions |-> DefaultPermissions,
                 primary_provider |-> "ollama", primary_model |-> "tinyllama"]
    /\ manifests = EmptyRegistry
    /\ task_hit = FALSE
    /\ request = DefaultRequest
    /\ session_row = NoRow /\ conversation = <<>> /\ steps = <<>> /\ events = <<>>
    /\ logs = {} /\ model_calls = <<>> /\ sandbox_calls = <<>>
    /\ write_failed = FALSE /\ read_failed = FALSE /\ calls_at_fail = <<0, 0>>
    /\ exc_log = <<>>

InitFSM == KernelOff /\ StoreIdle /\ BreakerIdle /\ RouterIdle /\ SandboxIdle /\ MemoryIdle

\* fsm.transition(to_state), for any of the six states
Request(to_state) ==
    /\ pc = "off"
    /\ Len(history) < MaxHistory
    /\ LET r == transition(state, history, to_state)
       IN  /\ state' = r.state
           /\ history' = r.history
           /\ fsm_last' = [from |-> state, to |-> to_state, exc |-> r.exc,
                           made |-> TRUE]
    /\ UNCHANGED <<pc, step_count, total_cost, final_answer, error_type,
                   error_msg, exc, response, tool_result, raised, result,
                   config, manifests, task_hit, request, session_row, conversation,
                   steps, events, logs, model_calls, sandbox_calls,
                   write_failed, read_failed, calls_at_fail, exc_log, is_open,
                   ev_rows, st_rows, chain_hashes, step_chain_hashes,
                   writes_made, store_op, breaker, monotonic, cb_op, cb_log,
                   router, sandbox, memory>>

NextFSM == \E to_state \in SessionStatus : Request(to_state)

SpecFSM == InitFSM /\ [][NextFSM]_vars

----------------------------------------------------------------------------
(* The claims about SessionFSM, under SpecFSM *)

\* the transition table as the specification states it
StatedTable ==
    {<<"IDLE", "RUNNING">>, <<"IDLE", "CANCELLED">>,
     <<"RUNNING", "WAITING">>, <<"RUNNING", "DONE">>, <<"RUNNING", "FAILED">>,
     <<"RUNNING", "CANCELLED">>,
     <<"WAITING", "RUNNING">>, <<"WAITING", "FAILED">>, <<"WAITING", "CANCELLED">>}

\* C1: the FSM starts in IDLE with an empty history; a request transition(to)
\* succeeds exactly when (state, to) is in the stated table, and then sets
\* the state to `to` and appends (from, to) to the history; any other request
\* raises InvalidStateTransitionError and changes neither state nor history.
C1_TransitionTable ==
    /\ state = "IDLE" /\ history = <<>>
    /\ [][LET to == fsm_last'.to
          IN  /\ fsm_last'.made
              /\ fsm_last'.from = state
              /\ IF <<state, to>> \in StatedTable
                 THEN /\ fsm_last'.exc = "None"
                      /\ state' = to
                      /\ history' = Append(history, <<state, to>>)
                 ELSE /\ fsm_last'.exc = "InvalidStateTransitionError"
                      /\ state' = state
                      /\ history' = history]_vars

\* C1 witness: after two transitions were made, a request was refused
C1_Witness ==
    /\ Len(history) >= 2
    /\ fsm_last.made
    /\ fsm_last.exc = "InvalidStateTransitionError"
    /\ <<fsm_last.from, fsm_last.to>> \notin StatedTable

\* C2: once the FSM is in DONE, FAILED or CANCELLED, every request (to any of
\* the six states) raises InvalidStateTransitionError and the state stays.
C2_TerminalAbsorbing ==
    [][is_terminal(state) =>
          /\ state' = state
          /\ history' = history
          /\ fsm_last'.exc = "InvalidStateTransitionError"]_vars

\* C2 witness: a request made in a terminal state was refused
C2_Witness ==
    /\ state \in {"DONE", "FAILED", "CANCELLED"}
    /\ fsm_last.made
    /\ fsm_last.from = state
    /\ fsm_last.exc = "InvalidStateTransitionError"

----------------------------------------------------------------------------
(* The claims about AgentKernel.run, under Spec *)

\* run has returned a SessionResult
Returned == pc = "end" /\ result.status # "NONE"

\* the sum of the costs of the first n model calls
RECURSIVE CostOfCalls(_)
CostOfCalls(n) == IF n = 0 THEN 0 ELSE CostOfCalls(n - 1) + model_calls[n].cost

\* the positions of run between the limit checks and the end of an iteration
InIteration ==
    {"step_start", "router_call", "dispatch", "final_step_end", "final_append",
     "tool_step_end", "tool_sentinel", "tool_waiting", "tool_call_start",
     "sandbox", "tool_call_end", "tool_call_failed", "tool_running",
     "tool_append"}

\* C3 (as stated): run either returns a SessionResult or raises
\* AuditWriteFailureError, whatever the provider, the sandbox and the store
\* do, store read failures (MemoryCorruptionError) included.
C3_OnlyAuditWriteFailureEscapes ==
    /\ raised \in {"None", "AuditWriteFailureError"}
    /\ pc = "end" => (Returned \/ raised = "AuditWriteFailureError")

C5_AuditHaltRecorded ==
    (pc = "end" /\ exc = "AuditWriteFailureError") =>
        /\ "audit_write_failure_halt" \in EventTypes
        /\ state = "FAILED"
        /\ session_row.status = "FAILED"
        /\ session_row.error_type = "AuditWriteFailureError"
        /\ raised = "AuditWriteFailureError"

\* C6: the router is called only for step numbers 1..max_steps.  When the
\* limit check finds step_count > max_steps, StepLimitExceededError is raised
\* with no step row written and no router call made for that step; and when
\* run then returns, a limit_exceeded event is stored and the result and the
\* row are FAILED with error_type StepLimitExceededError.  (Only a failed
\* history read at the head of that iteration pre-empts the check.)
C6_StepLimit ==
    /\ \A i \in 1..Len(model_calls) : model_calls[i].step \in 1..config.max_steps
    /\ \A i \in 1..Len(steps) : steps[i].step_number \in 1..config.max_steps
    /\ pc \in InIteration => step_count \in 1..config.max_steps
    /\ step_count > config.max_steps =>
          /\ step_count = config.max_steps + 1
          /\ pc # "loop"
          /\ exc \in {"StepLimitExceededError", "MemoryCorruptionError"}
          /\ exc = "MemoryCorruptionError" => read_failed
    /\ "StepLimitExceededError" \in {exc_log[i] : i \in 1..Len(exc_log)} =>
          /\ step_count = config.max_steps + 1
          /\ exc = "StepLimitExceededError"
          /\ Returned =>
                /\ "limit_exceeded" \in EventTypes
                /\ state = "FAILED"
                /\ result.status = "FAILED"
                /\ result.error_type = "StepLimitExceededError"
                /\ session_row.status = "FAILED"
                /\ session_row.error_type = "StepLimitExceededError"

\* C6 witness: max_steps model calls were made, the limit was hit in the
\* next iteration, and run returned
C6_Witness ==
    /\ Returned
    /\ exc = "StepLimitExceededError"
    /\ Len(model_calls) = config.max_steps
    /\ step_count = config.max_steps + 1
    /\ result.error_type = "StepLimitExceededError"

\* C7 (as stated): once total_cost > max_cost_usd, no further model call is
\* made, a limit_exceeded event is emitted and the session ends FAILED with
\* CostBudgetExceededError.
C7_OverBudgetEndsFailed ==
    /\ \A i \in 1..Len(model_calls) : model_calls[i].before <= config.max_cost_usd
    /\ (Returned /\ total_cost > config.max_cost_usd) =>
          /\ "limit_exceeded" \in EventTypes
          /\ result.status = "FAILED"
          /\ result.error_type = "CostBudgetExceededError"

\* C7 (amended): total_cost is the sum of the costs of the model calls made
\* so far; every model call is made with total_cost <= max_cost_usd, so once
\* total_cost > max_cost_usd no further call is made; the comparison is made
\* at the head of every iteration whose step check passed, and when it finds
\* total_cost > max_cost_usd, CostBudgetExceededError is raised and, when run
\* returns, a limit_exceeded event is stored and the result is FAILED with
\* error_type CostBudgetExceededError.  A run that goes over budget and does
\* not come back to the comparison ends as its last step decides.
C7_CostBudget ==
    /\ total_cost = CostOfCalls(Len(model_calls))
    /\ \A i \in 1..Len(model_calls) :
          /\ model_calls[i].before = CostOfCalls(i - 1)
          /\ model_calls[i].before <= config.max_cost_usd
    /\ pc \in {"step_start", "router_call"} => total_cost <= config.max_cost_usd
    /\ "CostBudgetExceededError" \in {exc_log[i] : i \in 1..Len(exc_log)} =>
          /\ exc = "CostBudgetExceededError"
          /\ total_cost > config.max_cost_usd
          /\ step_count <= config.max_steps
          /\ \A i \in 1..Len(model_calls) : model_calls[i].step < step_count
          /\ Returned =>
                /\ "limit_exceeded" \in EventTypes
                /\ result.status = "FAILED"
                /\ result.error_type = "CostBudgetExceededError"
                /\ result.total_cost_usd = total_cost

\* C7 witness: a model call took total_cost over the budget, the next
\* iteration raised CostBudgetExceededError, and run returned
C7_Witness ==
    /\ Returned
    /\ exc = "CostBudgetExceededError"
    /\ Len(model_calls) >= 1
    /\ total_cost > config.max_cost_usd
    /\ result.status = "FAILED"

\* no store operation has failed during run: the store works
StoreWorked == ~write_failed /\ ~read_failed

\* every model call made so far returned a tool_call for a tool nobody registered
AlwaysUnknownTool ==
    /\ Len(model_calls) >= 1
    /\ \A i \in 1..Len(model_calls) :
          /\ model_calls[i].action = "tool_call"
          /\ model_calls[i].tool_name \notin DOMAIN manifests

\* the positions of run, in the order run goes through them in one iteration
Positions ==
    <<"create_session", "scan", "session_start", "start_running", "append_task",
      "build_context", "loop", "step_start", "router_call", "dispatch",
      "final_step_end", "final_append", "tool_step_end", "tool_sentinel",
      "tool_waiting", "tool_call_start", "sandbox", "tool_call_end",
      "tool_call_failed", "tool_running", "tool_append", "except", "teardown",
      "final_sync", "end">>

\* the loop iterations run may still begin: none once it has left the loop,
\* and max_steps + 1 in all
IterationsLeft ==
    IF pc \in {"except", "teardown", "final_sync", "end"} THEN 0
    ELSE IF pc = "loop" THEN config.max_steps - step_count
    ELSE config.max_steps + 1 - step_count

\* a measure of what run still has to do: the iterations left, then the
\* positions left in the current one
Rank ==
    IterationsLeft * Len(Positions)
        + (Len(Positions) - (CHOOSE i \in 1..Len(Positions) : Positions[i] = pc))

\* C8: run terminates: until it has ended it can always take a step, and
\* every step lowers Rank, a natural number that allows max_steps + 1 loop
\* iterations.  With a store that works it ends by returning, with the FSM in
\* a terminal state (DONE or FAILED), after at most max_steps + 1 loop
\* iterations and at most max_steps + 1 model calls, whatever the provider
\* and the sandbox answer; and a provider that only ever asks for an unknown
\* tool gets FAILED with StepLimitExceededError or UnknownToolError.
C8_Terminates ==
    /\ [][Rank' < Rank]_vars
    /\ [](Rank >= 0 /\ (Rank = 0 <=> pc = "end"))
    /\ [](pc # "end" => ENABLED Next)
    /\ []((pc = "end" /\ StoreWorked) =>
            /\ Returned
            /\ raised = "None"
            /\ is_terminal(state)
            /\ result.status = state
            /\ state \in {"DONE", "FAILED"}
            /\ step_count <= config.max_steps + 1
            /\ Len(model_calls) <= config.max_steps + 1
            /\ AlwaysUnknownTool =>
                  /\ result.status = "FAILED"
                  /\ result.error_type \in {"StepLimitExceededError",
                                            "UnknownToolError"})

\* C8 witness: with a store that worked, run returned FAILED after
\* max_steps + 1 loop iterations
C8_Witness ==
    /\ Returned
    /\ StoreWorked
    /\ step_count = config.max_steps + 1
    /\ Len(model_calls) = config.max_steps
    /\ state = "FAILED"

\* C9 (as stated): when the sandbox raises a host-enforced failure, the
\* session is over: no model call is made for a later step, and run returns
\* FAILED with that error type (PathTraversalError or SecurityError for a
\* path traversal).
C9_HostFailureTerminal ==
    \A i \in 1..Len(sandbox_calls) :
        sandbox_calls[i].raised # "None" =>
            /\ \A j \in 1..Len(model_calls) :
                  model_calls[j].step <= sandbox_calls[i].step
            /\ Returned =>
                  /\ result.status = "FAILED"
                  /\ result.error_type \in
                        {sandbox_calls[i].raised} \cup
                        (IF sandbox_calls[i].raised = "PathTraversalError"
                         THEN {"SecurityError"} ELSE {})

\* C10: the sandbox is invoked only for the tool the model asked for in that
\* step, and only if that tool is registered and every permission of its
\* manifest is in the kernel's config.allowed_permissions; the check stands
\* between the model call and the sandbox whatever policy the registry was
\* built under.
C10_DispatchChecked ==
    /\ \A i \in 1..Len(sandbox_calls) :
          /\ sandbox_calls[i].tool \in DOMAIN manifests
          /\ manifests[sandbox_calls[i].tool] \subseteq config.allowed_permissions
          /\ \E j \in 1..Len(model_calls) :
                /\ model_calls[j].step = sandbox_calls[i].step
                /\ model_calls[j].action = "tool_call"
                /\ model_calls[j].tool_name = sandbox_calls[i].tool
    /\ pc \in {"tool_step_end", "tool_sentinel", "tool_waiting",
               "tool_call_start", "sandbox"} =>
          /\ response.tool_name \in DOMAIN manifests
          /\ manifests[response.tool_name] \subseteq config.allowed_permissions

\* C10 witness: under a kernel policy narrower than the one the registry was
\* built under, a permitted tool ran in the sandbox and a later call of a
\* registered tool was refused
C10_Witness ==
    /\ Len(sandbox_calls) >= 1
    /\ exc = "PermissionDeniedError"
    /\ "write_file" \in DOMAIN manifests
    /\ manifests["write_file"] \ config.allowed_permissions # {}

----------------------------------------------------------------------------
(* The claims about the kernel's error paths, under Spec *)

\* the number of stored events of type t
CountEvents(t) == Cardinality({i \in 1..Len(events) : events[i].event_type = t})

\* the model call made for the current step, if one was made
LastCall == model_calls[Len(model_calls)]

\* the positions of run after the dispatch checks of a tool call
AfterDispatch ==
    {"tool_step_end", "tool_sentinel", "tool_waiting", "tool_call_start",
     "sandbox", "tool_call_end", "tool_call_failed", "tool_running",
     "tool_append"}

C12_ProviderFailureFails ==
    /\ \A i \in 1..Len(model_calls) :
          model_calls[i].action \in {"ModelProviderExhaustedError",
                                     "CircuitBreakerOpenError"} =>
              /\ i = Len(model_calls)
              /\ exc = model_calls[i].action
              /\ pc \in {"except", "teardown", "final_sync", "end"}
              /\ total_cost = model_calls[i].before
    /\ exc \in {"ModelProviderExhaustedError", "CircuitBreakerOpenError"} =>
          /\ LastCall.action = exc
          /\ final_answer = "None"
          /\ pc \in {"teardown", "final_sync"} =>
                CountEvents("provider_failure") = 1 /\ state = "FAILED"
          /\ Returned =>
                /\ CountEvents("provider_failure") = 1
                /\ state = "FAILED"
                /\ result.status = "FAILED"
                /\ result.error_type = exc
                /\ result.answer = "None"
                /\ session_row.status = "FAILED"
                /\ session_row.error_type = exc

\* C12 witness: the breaker was open at the second model call and run
\* returned FAILED
C12_Witness ==
    /\ Returned
    /\ exc = "CircuitBreakerOpenError"
    /\ Len(model_calls) = 2
    /\ result.status = "FAILED"
    /\ CountEvents("provider_failure") = 1

\* C13: a ToolResult(ok=False) returned by the sandbox is handled as one with
\* ok=True: no exception is raised for it, the kernel emits tool_call_end,
\* takes the FSM from WAITING back to RUNNING, appends a tool-role message
\* ("ERROR: <error_message>" for ok=False, json(data) for ok=True) and goes
\* to the next loop iteration; only a store failure stops it on the way.
C13_ToolFailureContinues ==
    /\ [](pc \in {"tool_call_end", "tool_running", "tool_append"} =>
            /\ exc = "None" /\ error_type = "None" /\ raised = "None"
            /\ state = (IF pc = "tool_append" THEN "RUNNING" ELSE "WAITING"))
    /\ [][pc = "sandbox" /\ sandbox_calls'[Len(sandbox_calls')].raised = "None"
            => pc' = "tool_call_end"]_vars
    /\ [][pc = "tool_call_end" =>
            \/ /\ pc' = "tool_running"
               /\ events' = Append(events, [event_type |-> "tool_call_end",
                                             step_id |-> step_count])
            \/ pc' = "except" /\ exc' = "AuditWriteFailureError"]_vars
    /\ [][pc = "tool_running" =>
            \/ pc' = "tool_append" /\ state' = "RUNNING"
            \/ pc' = "except" /\ exc' = "AuditWriteFailureError"]_vars
    /\ [][pc = "tool_append" =>
            \/ /\ pc' = "loop" /\ state' = "RUNNING" /\ exc' = "None"
               /\ conversation' = Append(conversation,
                      [role |-> "tool",
                       content |-> IF tool_result.ok THEN "json(data)"
                                   ELSE "ERROR: error_message",
                       tool_name |-> response.tool_name,
                       tool_call_id |-> step_count])
            \/ /\ pc' = "except"
               /\ exc' \in {"AuditWriteFailureError", "MemoryCorruptionError"}]_vars

\* C13 witness: a tool reported failure in step 1, its ERROR message was
\* appended, and the kernel made the model call of step 2
C13_Witness ==
    /\ Len(model_calls) = 2
    /\ Len(sandbox_calls) >= 1
    /\ sandbox_calls[1].raised = "None"
    /\ \E i \in 1..Len(conversation) :
          /\ conversation[i].role = "tool"
          /\ conversation[i].content = "ERROR: error_message"
          /\ conversation[i].tool_call_id = 1

----------------------------------------------------------------------------
(* aria/memory/sqlite.py: the hash chains of a SQLiteStorage used on its own *)

\* "0" * 64, the seed of every chain
ZeroHash == "0000000000000000000000000000000000000000000000000000000000000000"

\* A digest that gives every input the same value.
sha256_str_constant(value) == "sha256()"

\* sha256_str (types.py 82-83): the digest of a string, written as a term
\* over its input (two inputs get the same digest only if they are equal)
sha256_str(value) == "sha256(" \o value \o ")"

\* dict.get(k, default) and dict[k] = v
Get(dict, k, default) == IF k \in DOMAIN dict THEN dict[k] ELSE default

Put(dict, k, v) == [x \in DOMAIN dict \cup {k} |-> IF x = k THEN v ELSE dict[x]]

\* A key that forgets the namespace.
ChainKey_no_namespace(session_id, namespace) == session_id \o ":" \o "event"

\* f"{session_id}:{namespace}" (sqlite.py 176)
ChainKey(session_id, namespace) == session_id \o ":" \o namespace

\* sha256_str(prev + sha256_str(payload)) (sqlite.py 170, 178)
next_hash(prev, payload) == sha256_str(prev \o sha256_str(payload))

\* the session ids used: the second one looks like a step key of the first
SessionIds == {"s1", "s1:step"}

\* json.dumps(event.payload) of the events written
Payloads == {"{i: 0}", "{i: 1}"}

\* the head of the event chain of a session, as the store holds it in memory
EventHead(session_id) == Get(chain_hashes, ChainKey(session_id, "event"), ZeroHash)

\* the rows of a session, in rowid order (WHERE session_id=?)
RowsOf(rows, session_id) == SelectSeq(rows, LAMBDA r : r.session_id = session_id)

\* ORDER BY timestamp: rows with equal timestamps stay in rowid order
OrderByTimestamp(rows) ==
    LET place(i) ==
            1 + Cardinality({j \in 1..Len(rows) :
                                \/ rows[j].timestamp < rows[i].timestamp
                                \/ rows[j].timestamp = rows[i].timestamp /\ j < i})
    IN  [k \in 1..Len(rows) |-> rows[CHOOSE i \in 1..Len(rows) : place(i) = k]]

\* the loop of verify_chain (sqlite.py 323-329) from row i on
RECURSIVE verify_rows(_, _, _)
verify_rows(rows, i, prev) ==
    IF i > Len(rows) THEN TRUE
    ELSE IF next_hash(prev, rows[i].payload_json) # rows[i].chain_hash THEN FALSE
    ELSE verify_rows(rows, i + 1, rows[i].chain_hash)

\* verify_chain that also compares the last row with the head in memory.
verify_chain_against_head(session_id) ==
    IF ~is_open THEN FALSE
    ELSE LET rows == OrderByTimestamp(RowsOf(ev_rows, session_id))
         IN  /\ verify_rows(rows, 1, ZeroHash)
             /\ rows # <<>> => rows[Len(rows)].chain_hash = EventHead(session_id)

\* SQLiteStorage.verify_chain (sqlite.py 316-332); a closed connection
\* raises sqlite3.Error, which gives False
verify_chain(session_id) ==
    IF ~is_open THEN FALSE
    ELSE verify_rows(OrderByTimestamp(RowsOf(ev_rows, session_id)), 1, ZeroHash)

\* the sessions whose event chain verifies
ValidSessions == {sid \in SessionIds : verify_chain(sid)}

\* A load that keeps the first row with the greatest timestamp.
load_chain_hashes_first(rows) ==
    LET with_rows == {sid \in SessionIds : RowsOf(rows, sid) # <<>>}
        head(sid) == LET mine == OrderByTimestamp(RowsOf(rows, sid))
                         top  == mine[Len(mine)].timestamp
                         i    == CHOOSE i \in 1..Len(mine) :
                                    /\ mine[i].timestamp = top
                                    /\ \A j \in 1..(i - 1) : mine[j].timestamp < top
                     IN  mine[i].chain_hash
        sid_of(k) == CHOOSE sid \in with_rows : ChainKey(sid, "event") = k
    IN  [k \in {ChainKey(sid, "event") : sid \in with_rows} |-> head(sid_of(k))]

\* SQLiteStorage._load_chain_hashes (sqlite.py 156-166): for every session
\* with events, the chain_hash of its row with the greatest timestamp (the
\* last such row in rowid order)
load_chain_hashes(rows) ==
    LET with_rows == {sid \in SessionIds : RowsOf(rows, sid) # <<>>}
        head(sid) == LET mine == OrderByTimestamp(RowsOf(rows, sid))
                     IN  mine[Len(mine)].chain_hash
        sid_of(k) == CHOOSE sid \in with_rows : ChainKey(sid, "event") = k
    IN  [k \in {ChainKey(sid, "event") : sid \in with_rows} |-> head(sid_of(k))]

StoreFrame ==
    /\ UNCHANGED kernel_vars /\ UNCHANGED breaker_vars
    /\ UNCHANGED router_vars /\ UNCHANGED sandbox_vars
    /\ UNCHANGED memory_vars

\* the record of a call on the store: the sessions that verified before it,
\* and whether the database has been closed and opened again
StoreOp(op, session_id, ok) ==
    [op |-> op, session_id |-> session_id, ok |-> ok, valid |-> ValidSessions,
     reopened |-> store_op.reopened]

\* SQLiteStorage.write_event (sqlite.py 282-295): the chain head moves, then
\* the row is inserted; a failing INSERT raises AuditWriteFailureError
StoreWriteEvent ==
    /\ pc = "off" /\ is_open /\ writes_made < MaxWrites
    /\ \E sid \in SessionIds, payload \in Payloads, ts \in 1..MaxTime, ok \in BOOLEAN :
          LET h == next_hash(EventHead(sid), payload)
          IN  /\ chain_hashes' = Put(chain_hashes, ChainKey(sid, "event"), h)
              /\ ev_rows' = IF ok
                            THEN Append(ev_rows,
                                    [session_id |-> sid, payload_json |-> payload,
                                     written_json |-> payload, chain_hash |-> h,
                                     timestamp |-> ts])
                            ELSE ev_rows
              /\ store_op' = StoreOp("write_event", sid, ok)
    /\ writes_made' = writes_made + 1
    /\ UNCHANGED <<is_open, st_rows, step_chain_hashes>>
    /\ StoreFrame

\* SQLiteStorage.write_step_start (sqlite.py 250-264), with
\* _next_step_chain_hash (sqlite.py 168-172)
StoreWriteStepStart ==
    /\ pc = "off" /\ is_open /\ writes_made < MaxWrites
    /\ \E sid \in SessionIds, ok \in BOOLEAN :
          LET h == next_hash(Get(step_chain_hashes, sid, ZeroHash), "{status: started}")
          IN  /\ step_chain_hashes' = Put(step_chain_hashes, sid, h)
              /\ st_rows' = IF ok
                            THEN Append(st_rows, [session_id |-> sid,
                                                  status |-> "started",
                                                  audit_chain_hash |-> h])
                            ELSE st_rows
              /\ store_op' = StoreOp("write_step_start", sid, ok)
    /\ writes_made' = writes_made + 1
    /\ UNCHANGED <<is_open, ev_rows, chain_hashes>>
    /\ StoreFrame

\* SQLiteStorage.write_step_end (sqlite.py 266-280): the hash comes from
\* _next_chain_hash with namespace "step"; UPDATE of the step's row (of no
\* row when the step was never started)
StoreWriteStepEnd ==
    /\ pc = "off" /\ is_open /\ writes_made < MaxWrites
    /\ \E sid \in SessionIds, ok \in BOOLEAN :
          LET key  == ChainKey(sid, "step")
              h    == next_hash(Get(chain_hashes, key, ZeroHash), "{status: completed}")
              mine == {i \in 1..Len(st_rows) : st_rows[i].session_id = sid}
          IN  /\ chain_hashes' = Put(chain_hashes, key, h)
              /\ st_rows' = IF ok /\ mine # {}
                            THEN LET i == CHOOSE i \in mine : \A j \in mine : j <= i
                                 IN  [st_rows EXCEPT ![i] =
                                        [session_id |-> sid, status |-> "completed",
                                         audit_chain_hash |-> h]]
                            ELSE st_rows
              /\ store_op' = StoreOp("write_step_end", sid, ok)
    /\ writes_made' = writes_made + 1
    /\ UNCHANGED <<is_open, ev_rows, step_chain_hashes>>
    /\ StoreFrame

\* an UPDATE of one row's payload_json made from outside the store
\* (tests/test_security.py 153-156)
TamperPayload ==
    /\ pc = "off" /\ is_open
    /\ \E i \in 1..Len(ev_rows), payload \in Payloads :
          /\ payload # ev_rows[i].payload_json
          /\ store_op' = StoreOp("tamper", ev_rows[i].session_id, TRUE)
          /\ ev_rows' = [ev_rows EXCEPT ![i].payload_json = payload]
    /\ UNCHANGED <<is_open, st_rows, chain_hashes, step_chain_hashes, writes_made>>
    /\ StoreFrame

\* SQLiteStorage.close (sqlite.py 334-338)
StoreClose ==
    /\ pc = "off" /\ is_open
    /\ store_op' = StoreOp("close", "None", TRUE)
    /\ is_open' = FALSE
    /\ UNCHANGED <<ev_rows, st_rows, chain_hashes, step_chain_hashes, writes_made>>
    /\ StoreFrame

\* SQLiteStorage.__init__ on the same database (sqlite.py 121-132): new
\* dictionaries, the event heads loaded from the table
StoreReopen ==
    /\ pc = "off" /\ ~is_open
    /\ store_op' = [op |-> "reopen", session_id |-> "None", ok |-> TRUE,
                    valid |-> store_op.valid, reopened |-> TRUE]
    /\ is_open' = TRUE
    /\ chain_hashes' = load_chain_hashes(ev_rows)
    /\ step_chain_hashes' = EmptyDict
    /\ UNCHANGED <<ev_rows, st_rows, writes_made>>
    /\ StoreFrame

InitStore ==
    KernelOff /\ StoreIdle /\ BreakerIdle /\ RouterIdle /\ SandboxIdle /\ MemoryIdle

NextStore ==
    \/ StoreWriteEvent \/ StoreWriteStepStart \/ StoreWriteStepEnd
    \/ TamperPayload \/ StoreClose \/ StoreReopen

SpecStore == InitStore /\ [][NextStore]_vars

----------------------------------------------------------------------------
(* The claims about the audit chain, under SpecStore *)

\* no stored payload of the session differs from the one written
Untampered(session_id) ==
    \A i \in 1..Len(ev_rows) :
        ev_rows[i].session_id = session_id =>
            ev_rows[i].payload_json = ev_rows[i].written_json

\* C14 (as stated): whatever events were written, in order, to a session
\* with write_event, and nothing tampered with, verify_chain(session_id)
\* returns true; a session with no events verifies.
C14_WrittenChainVerifies ==
    is_open => \A sid \in SessionIds : Untampered(sid) => verify_chain(sid)

\* C15: once events have been written to a session, a stored payload_json
\* that differs from the one written (the chain hashes left as they are)
\* makes verify_chain(session_id) return false.
C15_TamperDetected ==
    \A sid \in SessionIds : ~Untampered(sid) => ~verify_chain(sid)

\* C15 witness: a session of two events verified, then the payload of its
\* first event was overwritten and it no longer verifies
C15_Witness ==
    /\ store_op.op = "tamper"
    /\ store_op.session_id \in store_op.valid
    /\ Len(RowsOf(ev_rows, store_op.session_id)) >= 2
    /\ LET mine == RowsOf(ev_rows, store_op.session_id)
       IN  mine[1].payload_json # mine[1].written_json
    /\ ~verify_chain(store_op.session_id)

\* C16: the chain_hash given to an event is computed from the head of its
\* own session's event chain and its payload; a step write for any session,
\* or an event write for another session, changes neither the head of a
\* session's event chain nor the result of verify_chain for it; and a
\* re-opened store takes the head of a session from that session's rows.
C16_ChainsIndependent ==
    /\ [][(store_op'.op = "write_event" /\ store_op'.ok /\ ev_rows' # ev_rows) =>
            LET r == ev_rows'[Len(ev_rows')]
            IN  /\ r.chain_hash = next_hash(EventHead(r.session_id), r.payload_json)
                /\ Get(chain_hashes', ChainKey(r.session_id, "event"), ZeroHash)
                      = r.chain_hash]_vars
    /\ [][\A sid \in SessionIds :
            (\/ store_op'.op \in {"write_step_start", "write_step_end"}
             \/ store_op'.op = "write_event" /\ store_op'.session_id # sid) =>
                /\ EventHead(sid)' = EventHead(sid)
                /\ verify_chain(sid)' = verify_chain(sid)]_vars
    /\ [][store_op'.op = "reopen" =>
            \A sid \in SessionIds :
                EventHead(sid)' \in
                    IF RowsOf(ev_rows, sid) = <<>> THEN {ZeroHash}
                    ELSE {ev_rows[i].chain_hash : i \in
                            {j \in 1..Len(ev_rows) : ev_rows[j].session_id = sid}}]_vars

\* C16 witness: after an event of s1 was written, a step of s1 was ended:
\* both chains of s1 have a head, and s1 still verifies
C16_Witness ==
    /\ store_op.op = "write_step_end"
    /\ store_op.session_id = "s1"
    /\ Len(RowsOf(ev_rows, "s1")) >= 1
    /\ ChainKey("s1", "step") \in DOMAIN chain_hashes
    /\ EventHead("s1") = ev_rows[Len(ev_rows)].chain_hash
    /\ verify_chain("s1")

\* C17: after close and re-open on the same database, verify_chain gives for
\* every session what it gave before the close.
C17_ReopenKeepsVerdicts ==
    store_op.op = "reopen" => ValidSessions = store_op.valid

\* C17 witness: the store was re-opened with a session that verifies and one
\* that does not
C17_Witness ==
    /\ store_op.op = "reopen"
    /\ ValidSessions # {}
    /\ ValidSessions # SessionIds
    /\ ev_rows # <<>>

----------------------------------------------------------------------------
(* CircuitBreaker (circuit_breaker.py), used on its own *)

CBState == {"CLOSED", "OPEN", "HALF_OPEN"}

Providers == {"anthropic", "ollama"}

\* CircuitBreaker.state with a recovery that must be exceeded, not reached
state_property_strict(cb, now) ==
    IF /\ cb.state = "OPEN" /\ cb.opened_at # <<>>
       /\ now - cb.opened_at[1] > cb.recovery
    THEN [cb EXCEPT !.state = "HALF_OPEN"]
    ELSE cb

\* CircuitBreaker.state (circuit_breaker.py 33-38): the breaker after the
\* query; the value returned is its state
state_property(cb, now) ==
    IF /\ cb.state = "OPEN" /\ cb.opened_at # <<>>
       /\ now - cb.opened_at[1] >= cb.recovery
    THEN [cb EXCEPT !.state = "HALF_OPEN"]
    ELSE cb

\* CircuitBreaker.allow_request (circuit_breaker.py 40-42)
allow_request(cb, now) ==
    LET after == state_property(cb, now)
    IN  [breaker |-> after,
         raised  |-> IF after.state = "OPEN"
                     THEN [type |-> "CircuitBreakerOpenError",
                           provider |-> cb.provider]
                     ELSE NoRaise]

\* record_success that closes the breaker and keeps the opening time.
record_success_keeps_opened_at(cb) ==
    IF cb.state = "HALF_OPEN"
    THEN [cb EXCEPT !.failures = <<>>, !.state = "CLOSED"]
    ELSE [cb EXCEPT !.failures = <<>>]

\* CircuitBreaker.record_success (circuit_breaker.py 44-48)
record_success(cb) ==
    IF cb.state = "HALF_OPEN"
    THEN [cb EXCEPT !.failures = <<>>, !.state = "CLOSED", !.opened_at = <<>>]
    ELSE [cb EXCEPT !.failures = <<>>]

\* a window from which nothing is evicted
in_window_all(failures, now, window) == failures

\* the list comprehension of record_failure (circuit_breaker.py 56)
in_window(failures, now, window) ==
    SelectSeq(failures, LAMBDA t : now - t < window)

\* record_failure without its HALF_OPEN branch
record_failure_by_threshold(cb, now) ==
    LET kept == Append(in_window(cb.failures, now, cb.window), now)
    IN  IF Len(kept) >= cb.threshold
        THEN [cb EXCEPT !.opened_at = <<now>>, !.state = "OPEN",
                        !.failures = <<>>]
        ELSE [cb EXCEPT !.failures = kept]

\* CircuitBreaker.record_failure (circuit_breaker.py 50-61)
record_failure(cb, now) ==
    IF cb.state = "HALF_OPEN"
    THEN [cb EXCEPT !.opened_at = <<now>>, !.state = "OPEN"]
    ELSE LET kept == Append(in_window(cb.failures, now, cb.window), now)
         IN  IF Len(kept) >= cb.threshold
             THEN [cb EXCEPT !.opened_at = <<now>>, !.state = "OPEN",
                             !.failures = <<>>]
             ELSE [cb EXCEPT !.failures = kept]

\* CircuitBreaker.reset (circuit_breaker.py 63-66)
reset(cb) == [cb EXCEPT !.state = "CLOSED", !.failures = <<>>, !.opened_at = <<>>]

BreakerFrame ==
    /\ UNCHANGED kernel_vars /\ UNCHANGED chain_vars
    /\ UNCHANGED router_vars /\ UNCHANGED sandbox_vars
    /\ UNCHANGED memory_vars

BreakerOp(op, exception) ==
    cb_op' = [op |-> op, raised |-> exception, before |-> breaker,
              at |-> monotonic]

\* the clock advances between calls
CBTick ==
    /\ pc = "off"
    /\ monotonic < MaxClock
    /\ monotonic' = monotonic + 1
    /\ UNCHANGED <<breaker, cb_op, cb_log>>
    /\ BreakerFrame

\* cb.state, read by a caller or by status_dict (circuit_breaker.py 33-38, 68-74)
CBQueryState ==
    /\ pc = "off"
    /\ breaker' = state_property(breaker, monotonic)
    /\ BreakerOp("state", NoRaise)
    /\ UNCHANGED <<monotonic, cb_log>>
    /\ BreakerFrame

CBAllowRequest ==
    /\ pc = "off"
    /\ LET r == allow_request(breaker, monotonic)
       IN  /\ breaker' = r.breaker
           /\ BreakerOp("allow_request", r.raised)
    /\ UNCHANGED <<monotonic, cb_log>>
    /\ BreakerFrame

CBRecordSuccess ==
    /\ pc = "off"
    /\ breaker' = record_success(breaker)
    /\ BreakerOp("record_success", NoRaise)
    /\ cb_log' = [cb_log EXCEPT !.cleared = Len(cb_log.times)]
    /\ UNCHANGED monotonic
    /\ BreakerFrame

CBRecordFailure ==
    /\ pc = "off"
    /\ Len(cb_log.times) < MaxFailures
    /\ breaker' = record_failure(breaker, monotonic)
    /\ BreakerOp("record_failure", NoRaise)
    /\ cb_log' = [cb_log EXCEPT
                     !.times = Append(@, monotonic),
                     !.opened = IF breaker.state # "OPEN" /\ breaker'.state = "OPEN"
                                THEN Len(cb_log.times) + 1 ELSE @]
    /\ UNCHANGED monotonic
    /\ BreakerFrame

CBReset ==
    /\ pc = "off"
    /\ breaker' = reset(breaker)
    /\ BreakerOp("reset", NoRaise)
    /\ cb_log' = [cb_log EXCEPT !.cleared = Len(cb_log.times)]
    /\ UNCHANGED monotonic
    /\ BreakerFrame

\* a breaker just constructed, with any parameters, at time 0
InitBreaker ==
    /\ KernelOff /\ StoreIdle /\ RouterIdle /\ SandboxIdle /\ MemoryIdle
    /\ \E provider \in Providers, failure_threshold \in 1..MaxThreshold,
          window_seconds \in 1..MaxWindow, recovery_seconds \in 1..MaxRecovery :
          LET cb == NewBreaker(provider, failure_threshold, window_seconds,
                               recovery_seconds)
          IN  breaker = cb /\ cb_op = NoBreakerOp(cb)
    /\ monotonic = 0
    /\ cb_log = [times |-> <<>>, cleared |-> 0, opened |-> 0]

NextBreaker ==
    \/ CBTick \/ CBQueryState \/ CBAllowRequest
    \/ CBRecordSuccess \/ CBRecordFailure \/ CBReset

SpecBreaker == InitBreaker /\ [][NextBreaker]_vars

----------------------------------------------------------------------------
(* The claims about the circuit breaker, under SpecBreaker *)

\* the failures recorded up to the last call, after the first `skipped` of
\* them, that were less than `window` seconds old at the call
CountWithin(times, skipped, at, window) ==
    Cardinality({i \in (skipped + 1)..Len(times) : at - times[i] < window})

FailuresWithin(skipped, at, window) ==
    CountWithin(cb_log.times, skipped, at, window)

\* C18, as stated: a call leaves a CLOSED breaker OPEN exactly when it records
\* a failure that brings the number of failures recorded within the last
\* window_seconds to failure_threshold, the window having been cleared when
\* the breaker last opened.
C18_OpensOnFailuresInWindow ==
    [][breaker.state = "CLOSED" =>
        ((breaker'.state = "OPEN") <=>
            (/\ Len(cb_log'.times) = Len(cb_log.times) + 1
             /\ CountWithin(cb_log'.times, cb_log.opened, monotonic,
                            breaker.window) >= breaker.threshold))]_vars

\* C18, amended: a call leaves a CLOSED breaker OPEN exactly when it records a
\* failure that brings to failure_threshold the number of failures recorded
\* within the last window_seconds and after the last recorded success or
\* reset; the breaker then holds opened_at = the time of the call and an empty
\* window, and a window kept by a recorded failure holds no failure older than
\* window_seconds.
C18_OpensAtThreshold ==
    cb_op.before.state = "CLOSED" =>
        /\ (breaker.state = "OPEN") <=>
               (/\ cb_op.op = "record_failure"
                /\ FailuresWithin(cb_log.cleared, cb_op.at, breaker.window)
                      = breaker.threshold)
        /\ breaker.state = "OPEN" =>
               /\ breaker.opened_at = <<cb_op.at>>
               /\ breaker.failures = <<>>
        /\ (cb_op.op = "record_failure" /\ breaker.state = "CLOSED") =>
               /\ \A i \in 1..Len(breaker.failures) :
                      ~(cb_op.at - breaker.failures[i] > breaker.window)
               /\ Len(breaker.failures) =
                      FailuresWithin(cb_log.cleared, cb_op.at, breaker.window)
        /\ breaker.state # "HALF_OPEN"

\* a failure that opens a breaker of threshold 2 or more after an earlier
\* failure had left the window by age
C18_Witness ==
    /\ cb_op.op = "record_failure"
    /\ cb_op.before.state = "CLOSED"
    /\ breaker.state = "OPEN"
    /\ breaker.threshold >= 2
    /\ Len(cb_log.times) - cb_log.cleared > breaker.threshold
    /\ breaker.opened_at = <<cb_op.at>>

\* C19: a state query or allow_request on an OPEN breaker less than
\* recovery_seconds after opened_at leaves it OPEN, and allow_request raises
\* CircuitBreakerOpen for the breaker's provider; at recovery_seconds or later
\* the query leaves the breaker HALF_OPEN and allow_request raises nothing.
C19_OpenUntilRecovery ==
    /\ breaker.state = "OPEN" => breaker.opened_at # <<>>
    /\ (cb_op.before.state = "OPEN" /\ cb_op.op \in {"state", "allow_request"}) =>
           /\ cb_op.before.opened_at # <<>>
           /\ IF cb_op.at - cb_op.before.opened_at[1] < cb_op.before.recovery
              THEN /\ breaker.state = "OPEN"
                   /\ cb_op.op = "allow_request" =>
                          cb_op.raised = [type |-> "CircuitBreakerOpenError",
                                          provider |-> cb_op.before.provider]
              ELSE /\ breaker.state = "HALF_OPEN"
                   /\ cb_op.raised = NoRaise

\* an allow_request admitted by a breaker that was OPEN, exactly
\* recovery_seconds after it opened
C19_Witness ==
    /\ cb_op.op = "allow_request"
    /\ cb_op.before.state = "OPEN"
    /\ cb_op.before.opened_at # <<>>
    /\ cb_op.at - cb_op.before.opened_at[1] = cb_op.before.recovery
    /\ breaker.state = "HALF_OPEN"
    /\ cb_op.raised = NoRaise

\* C20: on a HALF_OPEN breaker allow_request raises nothing; record_success
\* leaves it CLOSED with opened_at None; record_failure leaves it OPEN with
\* opened_at = the time of the call, for every threshold and window.
C20_HalfOpenProbe ==
    cb_op.before.state = "HALF_OPEN" =>
        /\ cb_op.op = "allow_request" =>
               cb_op.raised = NoRaise /\ breaker.state = "HALF_OPEN"
        /\ cb_op.op = "record_success" =>
               breaker.state = "CLOSED" /\ breaker.opened_at = <<>>
        /\ cb_op.op = "record_failure" =>
               breaker.state = "OPEN" /\ breaker.opened_at = <<cb_op.at>>

\* one failure re-opens a HALF_OPEN breaker whose threshold is 2 and whose
\* window is empty
C20_Witness ==
    /\ cb_op.op = "record_failure"
    /\ cb_op.before.state = "HALF_OPEN"
    /\ cb_op.before.failures = <<>>
    /\ breaker.threshold >= 2
    /\ breaker.state = "OPEN"
    /\ breaker.opened_at = <<cb_op.at>>

----------------------------------------------------------------------------
(* ModelRouter.call (router.py 31-73), used on its own with one registered
   provider "p" and that provider's breaker *)

\* router.py 16-19
RETRYABLE == {"ModelProviderError", "ModelRateLimitError", "ModelTimeoutError"}
MAX_RETRIES == 3
BASE_BACKOFF == 2
MAX_BACKOFF == 30

\* what provider.call can do: return a response or raise
ProviderOutcomes ==
    {"ok", "ModelProviderError", "ModelRateLimitError", "ModelTimeoutError",
     "ModelOutputValidationError", "ValueError"}

\* request.provider: the registered provider or another name
RequestProviders == {"p", "openai"}

\* random.uniform(0, 1), in whole seconds
Jitters == {0, 1}

\* the except clauses of call with ModelOutputValidationError retried
except_clause_retry_validation(e) ==
    IF IsInstance(e, {"ModelOutputValidationError"}) THEN "retry"
    ELSE IF IsInstance(e, RETRYABLE) THEN "retry"
    ELSE "propagate"

\* the except clause of call that catches e (router.py 56, 60)
except_clause(e) ==
    IF IsInstance(e, {"ModelOutputValidationError"}) THEN "reraise"
    ELSE IF IsInstance(e, RETRYABLE) THEN "retry"
    ELSE "propagate"

\* a call that sleeps after every failed attempt
sleeps_after_always(attempt) == TRUE

\* router.py 66: a backoff sleep follows the failed attempt
sleeps_after(attempt) == attempt < MAX_RETRIES

\* router.py 67-68
backoff(attempt, jitter) ==
    LET delay == BASE_BACKOFF * (2 ^ (attempt - 1)) + jitter
    IN  IF delay < MAX_BACKOFF THEN delay ELSE MAX_BACKOFF

\* a router that returns the response without telling the breaker
provider_returned_unrecorded(cb, value) ==
    [breaker |-> cb, result |-> value, recorded |-> <<>>]

\* a router that records the success twice
provider_returned_twice(cb, value) ==
    [breaker |-> record_success(record_success(cb)), result |-> value,
     recorded |-> <<"success", "success">>]

\* router.py 52-54: the provider returned
provider_returned(cb, value) ==
    [breaker |-> record_success(cb), result |-> value,
     recorded |-> <<"success">>]

\* allow_request on a breaker that admits every request
consult_breaker_admit(cb, now) ==
    [breaker |-> state_property(cb, now), raised |-> NoRaise]

\* router.py 41-46: the breaker is consulted
consult_breaker(cb, now) == allow_request(cb, now)

RouterFrame ==
    /\ UNCHANGED kernel_vars /\ UNCHANGED chain_vars
    /\ UNCHANGED <<cb_op, cb_log>> /\ UNCHANGED sandbox_vars
    /\ UNCHANGED memory_vars

\* the call ends: it returns value or raises exception
CallEnd(r, value, exception) ==
    [r EXCEPT !.pc = "idle", !.result = value, !.raised = exception]

\* router.call(request) is entered, some time after the previous call
\* (router.py 32-38)
CallEnter ==
    /\ pc = "off"
    /\ router.pc = "idle"
    /\ router.calls < MaxCalls
    /\ \E wait \in {0, breaker.window, breaker.recovery},
          provider \in RequestProviders :
          /\ monotonic' = monotonic + wait
          /\ LET r == [router EXCEPT
                          !.calls = @ + 1, !.provider = provider,
                          !.attempt = 1, !.last_err = "None",
                          !.result = NoRouterResult, !.raised = NoRouterRaise,
                          !.invoked = <<>>, !.recorded = <<>>, !.slept = <<>>,
                          !.rejected_at = 0]
             IN  router' =
                    IF provider # breaker.provider
                    THEN CallEnd(r, NoRouterResult,
                                   [type |-> "ValueError", attempts |-> 0,
                                    provider |-> provider])
                    ELSE [r EXCEPT !.pc = "allow"]
    /\ UNCHANGED breaker
    /\ RouterFrame

\* an attempt starts: breaker.allow_request() (router.py 40-46)
CallAllow ==
    /\ pc = "off"
    /\ router.pc = "allow"
    /\ LET c == consult_breaker(breaker, monotonic)
       IN  /\ breaker' = c.breaker
           /\ router' =
                 IF c.raised # NoRaise
                 THEN CallEnd([router EXCEPT !.rejected_at = router.attempt],
                                NoRouterResult,
                                [type |-> c.raised.type, attempts |-> 0,
                                 provider |-> c.raised.provider])
                 ELSE [router EXCEPT !.pc = "invoke"]
    /\ UNCHANGED monotonic
    /\ RouterFrame

\* provider.call(request) and what follows it in the attempt (router.py 48-69),
\* up to the end of the call (router.py 71-73) after the last attempt
CallInvoke ==
    /\ pc = "off"
    /\ router.pc = "invoke"
    /\ \E outcome \in ProviderOutcomes, jitter \in Jitters :
          LET value == [call |-> router.calls,
                        invocation |-> Len(router.invoked) + 1]
              r == [router EXCEPT
                       !.invoked = Append(@, [attempt |-> router.attempt,
                                              outcome |-> outcome])]
              failed == [r EXCEPT !.recorded = Append(@, "failure")]
              slept == IF sleeps_after(router.attempt)
                       THEN <<backoff(router.attempt, jitter)>> ELSE <<>>
          IN  IF outcome = "ok"
              THEN LET done == provider_returned(breaker, value)
                   IN  /\ jitter = 0
                       /\ breaker' = done.breaker
                       /\ router' = CallEnd(
                             [r EXCEPT !.recorded = @ \o done.recorded],
                             done.result, NoRouterRaise)
                       /\ UNCHANGED monotonic
              ELSE IF except_clause(outcome) = "reraise"
              THEN /\ jitter = 0
                   /\ breaker' = record_failure(breaker, monotonic)
                   /\ router' = CallEnd(failed, NoRouterResult,
                                    [type |-> outcome, attempts |-> 0,
                                     provider |-> "None"])
                   /\ UNCHANGED monotonic
              ELSE IF except_clause(outcome) = "retry"
              THEN /\ slept = <<>> => jitter = 0
                   /\ breaker' = record_failure(breaker, monotonic)
                   /\ monotonic' = monotonic + (IF slept = <<>> THEN 0 ELSE slept[1])
                   /\ LET after == [failed EXCEPT
                                       !.last_err = outcome,
                                       !.slept = @ \o
                                          [i \in 1..Len(slept) |->
                                             [attempt |-> router.attempt,
                                              delay |-> slept[i]]]]
                      IN  router' =
                             IF router.attempt < MAX_RETRIES
                             THEN [after EXCEPT !.pc = "allow",
                                                !.attempt = @ + 1]
                             ELSE CallEnd(after, NoRouterResult,
                                     [type |-> "ModelProviderExhaustedError",
                                      attempts |-> MAX_RETRIES,
                                      provider |-> "None"])
              ELSE /\ jitter = 0
                   /\ router' = CallEnd(r, NoRouterResult,
                                    [type |-> outcome, attempts |-> 0,
                                     provider |-> "None"])
                   /\ UNCHANGED <<breaker, monotonic>>
    /\ RouterFrame

InitRouter ==
    KernelOff /\ StoreIdle /\ BreakerIdle /\ RouterIdle /\ SandboxIdle /\ MemoryIdle

NextRouter == CallEnter \/ CallAllow \/ CallInvoke

SpecRouter == InitRouter /\ [][NextRouter]_vars

----------------------------------------------------------------------------
(* The claims about the router, under SpecRouter *)

\* a call on the registered provider has ended
CallDone == router.pc = "idle" /\ router.calls > 0 /\ router.provider = "p"

\* the provider's outcomes in the call, in order of invocation
OutcomesOf(r) == [i \in 1..Len(r.invoked) |-> r.invoked[i].outcome]

AllFailures(n) == [i \in 1..n |-> "failure"]

\* C21: a call in which the provider raised a retryable error on attempts 1
\* and 2 and returned on attempt 3 returns the response of the third
\* invocation, after exactly three invocations, having recorded two failures
\* and then the success with the breaker, which is left CLOSED with an empty
\* window.
C21_ThirdAttemptReturned ==
    /\ Len(router.invoked) <= MAX_RETRIES
    /\ (/\ CallDone
        /\ Len(router.invoked) >= 3
        /\ router.invoked[1].outcome \in RETRYABLE
        /\ router.invoked[2].outcome \in RETRYABLE
        /\ router.invoked[3].outcome = "ok") =>
           /\ Len(router.invoked) = 3
           /\ router.result = [call |-> router.calls, invocation |-> 3]
           /\ router.raised = NoRouterRaise
           /\ router.recorded = <<"failure", "failure", "success">>
           /\ breaker.state = "CLOSED" /\ breaker.failures = <<>>
           /\ breaker.opened_at = <<>>

\* a rate limit, a timeout, then a response
C21_Witness ==
    /\ CallDone
    /\ OutcomesOf(router) = <<"ModelRateLimitError", "ModelTimeoutError", "ok">>
    /\ router.result.invocation = 3

\* C22: a call in which every attempt reached the provider and the provider
\* raised a retryable error each time raises ModelProviderExhausted with
\* attempts = 3 after three invocations, with one failure recorded per
\* invocation and a backoff slept after attempts 1 and 2 only, of
\* min(2 * 2^(attempt-1) + jitter, 30) seconds.
C22_ExhaustedAfterThree ==
    (/\ CallDone
     /\ router.rejected_at = 0
     /\ router.invoked # <<>>
     /\ \A i \in 1..Len(router.invoked) :
            router.invoked[i].outcome \in RETRYABLE) =>
        /\ router.raised = [type |-> "ModelProviderExhaustedError",
                            attempts |-> 3, provider |-> "None"]
        /\ Len(router.invoked) = 3
        /\ router.recorded = AllFailures(3)
        /\ Len(router.slept) = 2
        /\ \A i \in 1..2 :
               /\ router.slept[i].attempt = i
               /\ router.slept[i].delay \in {2 * i, 2 * i + 1}
        /\ router.last_err = router.invoked[3].outcome

C22_Witness ==
    /\ CallDone
    /\ router.raised.type = "ModelProviderExhaustedError"
    /\ router.raised.attempts = 3
    /\ Len(router.invoked) = 3
    /\ Len(router.slept) = 2

\* C23: an attempt that starts while the breaker's state is OPEN ends the call
\* at once with CircuitBreakerOpen for the provider: no invocation, no
\* recorded failure, no sleep and no passing of time on that attempt, and
\* none after it; a call so ended at attempt k made k-1 invocations.
C23_OpenBreakerAborts ==
    /\ [][(/\ router.pc = "allow"
            /\ state_property(breaker, monotonic).state = "OPEN") =>
             /\ router'.pc = "idle"
             /\ router'.raised = [type |-> "CircuitBreakerOpenError",
                                  attempts |-> 0, provider |-> breaker.provider]
             /\ router'.rejected_at = router.attempt
             /\ router'.invoked = router.invoked
             /\ router'.recorded = router.recorded
             /\ router'.slept = router.slept
             /\ breaker' = breaker
             /\ monotonic' = monotonic]_vars
    /\ []((CallDone /\ router.rejected_at > 0) =>
             /\ router.raised.type = "CircuitBreakerOpenError"
             /\ Len(router.invoked) = router.rejected_at - 1
             /\ router.recorded = AllFailures(router.rejected_at - 1)
             /\ Len(router.slept) = router.rejected_at - 1)
    /\ []((CallDone /\ router.raised.type = "CircuitBreakerOpenError") =>
             router.rejected_at > 0)

\* the breaker opened during the call: the third attempt is refused
C23_Witness ==
    /\ CallDone
    /\ router.rejected_at = 3
    /\ router.raised.type = "CircuitBreakerOpenError"
    /\ Len(router.invoked) = 2
    /\ breaker.state = "OPEN"

\* C24, as stated: a call in which the provider raised
\* ModelOutputValidation re-raises it with one failure recorded and one
\* invocation made.
C24_ValidationInvokedOnce ==
    (/\ CallDone
     /\ \E i \in 1..Len(router.invoked) :
            router.invoked[i].outcome = "ModelOutputValidationError") =>
        /\ router.raised.type = "ModelOutputValidationError"
        /\ Len(router.invoked) = 1
        /\ router.recorded = <<"failure">>

\* C24, amended: a call in which the provider raised ModelOutputValidation
\* re-raises it; that invocation is the last of the call, one failure is
\* recorded for it (as for each retryable failure before it), and no sleep
\* follows it.
C24_ValidationNotRetried ==
    \A i \in 1..Len(router.invoked) :
        (CallDone /\ router.invoked[i].outcome = "ModelOutputValidationError") =>
            /\ router.raised.type = "ModelOutputValidationError"
            /\ i = Len(router.invoked)
            /\ router.invoked[i].attempt = i
            /\ router.recorded = AllFailures(i)
            /\ Len(router.slept) = i - 1
            /\ \A j \in 1..(i - 1) : router.invoked[j].outcome \in RETRYABLE
            /\ router.rejected_at = 0

\* a retryable failure, then the validation error on the second attempt
C24_Witness ==
    /\ CallDone
    /\ OutcomesOf(router) = <<"ModelProviderError", "ModelOutputValidationError">>
    /\ router.raised.type = "ModelOutputValidationError"
    /\ router.recorded = <<"failure", "failure">>

----------------------------------------------------------------------------
(* run_tool_sandboxed (sandbox.py 165-240), called on its own *)

\* Strings are written as paths are read: absolute or not, then the
\* components between the separators; nul marks an embedded null byte.
Str(abs, parts) == [abs |-> abs, parts |-> parts, nul |-> FALSE]

\* the file system: the process's working directory, the allowed base, and a
\* symbolic link inside the base that leads out of it
Cwd == <<"work">>
Base == <<"allowed">>
Symlinks == [l \in {<<"allowed", "link">>} |-> <<"etc">>]

\* the strings tried as argument values
Strings ==
    { Str(TRUE,  <<"allowed", "f">>),
      Str(TRUE,  <<"etc", "passwd">>),
      Str(TRUE,  <<"allowed", "..", "etc", "passwd">>),
      Str(TRUE,  <<"allowed", "link", "passwd">>),
      Str(FALSE, <<"..", "allowed", "f">>),
      Str(FALSE, <<".", "secret.txt">>),
      Str(FALSE, <<"secret.txt">>),
      [abs |-> TRUE, parts |-> <<"etc">>, nul |-> TRUE] }

\* argument values: a string the tool opens as a file, a string it does not,
\* a list holding a string it opens, an integer
Values ==
    [kind : {"str"}, s : Strings, is_path : BOOLEAN]
    \cup [kind : {"list"},
          s : {Str(TRUE, <<"etc", "passwd">>), Str(TRUE, <<"allowed", "f">>)},
          is_path : {TRUE}]
    \cup [kind : {"int"}, s : {Str(FALSE, <<"7">>)}, is_path : {FALSE}]

Keys == {"path", "extra"}

\* the arguments tried: "path" with any value or missing, "extra" with a
\* value that is used as a path, or missing
ArgumentSets ==
    {a \in UNION {[ks -> Values] : ks \in SUBSET Keys} :
        "extra" \in DOMAIN a => a["extra"].is_path}

\* the input schemas tried: an object with one required property "path", a
\* string or an array, other properties allowed
Schemas ==
    [required : {{"path"}}, props : {[k \in {"path"} |-> "string"],
                                     [k \in {"path"} |-> "array"]},
     additional : {TRUE}]

\* the Python type a schema type accepts (sandbox.py 56-82)
type_ok(value, t) ==
    CASE t = "string"  -> value.kind = "str"
      [] t = "integer" -> value.kind = "int"
      [] t = "array"   -> value.kind = "list"
      [] OTHER         -> TRUE

\* _validate_schema on an object schema (sandbox.py 35-55): the bad fields
validate_schema(data, schema) ==
    {k \in schema.required : k \notin DOMAIN data}
    \cup (IF schema.additional THEN {}
          ELSE {k \in DOMAIN data : k \notin DOMAIN schema.props})
    \cup {k \in DOMAIN schema.props \cap DOMAIN data :
            ~type_ok(data[k], schema.props[k])}

\* validate_input (sandbox.py 147-153)
validate_input(arguments, manifest) ==
    IF validate_schema(arguments, manifest.input_schema) # {}
    THEN "ToolInputValidationError" ELSE "None"

\* Path(value).resolve() (sandbox.py 132): symbolic links followed, "." and
\* ".." removed, a relative path taken from the working directory
RECURSIVE Walk(_, _)
Walk(done, rest) ==
    IF rest = <<>> THEN done
    ELSE IF Head(rest) = "." THEN Walk(done, Tail(rest))
    ELSE IF Head(rest) = ".."
         THEN Walk(IF done = <<>> THEN done ELSE SubSeq(done, 1, Len(done) - 1),
                   Tail(rest))
    ELSE IF Append(done, Head(rest)) \in DOMAIN Symlinks
         THEN Walk(Symlinks[Append(done, Head(rest))], Tail(rest))
    ELSE Walk(Append(done, Head(rest)), Tail(rest))

resolve(s) == Walk(IF s.abs THEN <<>> ELSE Cwd, s.parts)

\* resolved == base or str(resolved).startswith(str(base) + os.sep)
\* (sandbox.py 136)
Under(resolved, base) ==
    \/ resolved = base
    \/ Len(resolved) > Len(base) /\ SubSeq(resolved, 1, Len(base)) = base

\* "/" in value, value.startswith(".") (sandbox.py 129)
has_slash(s) == s.abs \/ Len(s.parts) >= 2
starts_with_dot(s) == ~s.abs /\ Head(s.parts) \in {".", ".."}

\* check(value) of validate_paths (sandbox.py 126-141): the value is refused
check(value, allowed_bases) ==
    IF value.kind # "str" THEN FALSE
    ELSE IF ~has_slash(value.s) /\ ~starts_with_dot(value.s) THEN FALSE
    ELSE IF value.s.nul THEN TRUE
    ELSE ~\E i \in 1..Len(allowed_bases) :
             Under(resolve(value.s), allowed_bases[i])

\* validate_paths (sandbox.py 120-144)
validate_paths(arguments, manifest) ==
    IF manifest.allowed_paths = <<>> THEN "None"
    ELSE IF \E k \in DOMAIN arguments :
               check(arguments[k], manifest.allowed_paths)
         THEN "PathTraversalError" ELSE "None"

\* what the child process can do (sandbox.py 193-240)
ChildOutcomes ==
    {"timeout", "nonzero_exit", "no_output", "malformed_json", "not_ok",
     "ok_bad_data", "ok"}

SandboxFrame ==
    /\ UNCHANGED kernel_vars /\ UNCHANGED chain_vars
    /\ UNCHANGED breaker_vars /\ UNCHANGED router_vars
    /\ UNCHANGED memory_vars

\* run_tool_sandboxed up to the spawn (sandbox.py 177-201)
SandboxValidate ==
    /\ sandbox.pc = "validate"
    /\ LET e1 == validate_input(sandbox.arguments, sandbox.manifest)
           e2 == validate_paths(sandbox.arguments, sandbox.manifest)
       IN  sandbox' =
             IF e1 # "None"
             THEN [sandbox EXCEPT !.pc = "done", !.raised = e1,
                                  !.did = <<"validate_input">>]
             ELSE IF e2 # "None"
             THEN [sandbox EXCEPT !.pc = "done", !.raised = e2,
                                  !.did = <<"validate_input", "validate_paths">>]
             ELSE [sandbox EXCEPT !.pc = "child", !.spawned = @ + 1,
                                  !.did = <<"validate_input", "validate_paths",
                                            "spawn">>]
    /\ SandboxFrame

\* the child ends or is killed; the parent reads its output
\* (sandbox.py 202-240)
SandboxChildExit ==
    /\ sandbox.pc = "child"
    /\ \E outcome \in ChildOutcomes :
          sandbox' =
            [sandbox EXCEPT
               !.pc = "done",
               !.raised =
                  CASE outcome = "timeout" -> "ToolTimeoutError"
                    [] outcome \in {"nonzero_exit", "no_output",
                                    "malformed_json"} -> "ToolSandboxError"
                    [] outcome = "ok_bad_data" -> "ToolOutputValidationError"
                    [] OTHER -> "None",
               !.returned =
                  CASE outcome = "not_ok" -> "ToolResult(ok=False)"
                    [] outcome = "ok" -> "ToolResult(ok=True)"
                    [] OTHER -> "None"]
    /\ SandboxFrame

\* a call of run_tool_sandboxed with any manifest and arguments tried
InitSandbox ==
    /\ KernelOff /\ StoreIdle /\ BreakerIdle /\ RouterIdle /\ MemoryIdle
    /\ \E arguments \in ArgumentSets, input_schema \in Schemas,
          allowed_paths \in {<<>>, <<Base>>} :
          sandbox = [pc |-> "validate", arguments |-> arguments,
                     manifest |-> [input_schema |-> input_schema,
                                   allowed_paths |-> allowed_paths],
                     raised |-> "None", returned |-> "None", spawned |-> 0,
                     did |-> <<>>]

NextSandbox == SandboxValidate \/ SandboxChildExit

SpecSandbox == InitSandbox /\ [][NextSandbox]_vars

----------------------------------------------------------------------------
(* The claim about the sandbox, under SpecSandbox *)

\* the strings of the arguments that the tool opens as files, at any depth
PathsIn(arguments) ==
    {arguments[k].s : k \in {j \in DOMAIN arguments : arguments[j].is_path}}

\* the file a string names lies outside every allowed base
Outside(s, allowed_bases) ==
    \/ s.nul
    \/ ~\E i \in 1..Len(allowed_bases) : Under(resolve(s), allowed_bases[i])

\* C25: once run_tool_sandboxed has validated arguments that fail the input
\* schema, or that hold a path outside the (non-empty) allowed_paths, it has
\* raised ToolInputValidation (the schema is checked first) or PathTraversal,
\* and no child process was created.
C25_NoChildForBadArguments ==
    LET a == sandbox.arguments
        m == sandbox.manifest
        bad_schema == validate_schema(a, m.input_schema) # {}
        bad_path == /\ m.allowed_paths # <<>>
                    /\ \E s \in PathsIn(a) : Outside(s, m.allowed_paths)
    IN  (sandbox.pc \in {"child", "done"} /\ (bad_schema \/ bad_path)) =>
            /\ sandbox.spawned = 0
            /\ sandbox.raised = IF bad_schema THEN "ToolInputValidationError"
                                ELSE "PathTraversalError"

(***************************************************************************)
(* The session row against the step rows (kernel.py 112-155, 256-262;      *)
(* sqlite.py 194-208, 250-280), under Spec.                                *)
(***************************************************************************)

\* SELECT SUM(cost_usd) over the first n step rows of the session
RECURSIVE SumCosts(_, _)
SumCosts(rows, n) ==
    IF n = 0 THEN 0 ELSE rows[n].cost_usd + SumCosts(rows, n - 1)

\* C26: whenever the kernel syncs the session row, and so when the session
\* ends DONE or FAILED by any path, the row's total_steps is the number of
\* step rows of the session and its total_cost_usd is the sum of their costs.
\* (Stated for the runs in which no store call has failed.)
C26_SessionRowMatchesSteps ==
    [][(session_row' # session_row /\ StoreWorked') =>
          /\ session_row'.total_steps = Len(steps')
          /\ session_row'.total_cost_usd = SumCosts(steps', Len(steps'))]_vars

(***************************************************************************)
(* The end of a session (kernel.py 111, 157-164, 212-262), under Spec.     *)
(***************************************************************************)

\* the message FinalAppend stores for the final answer
FinalAnswerMessage == Message("assistant", "answer", "None", 0)

\* C27: once the kernel's FSM is DONE or FAILED it makes no further
\* transition and no further message is appended to the conversation; and
\* the step that moves the FSM to DONE is the one that has just appended the
\* final-answer message, so the message is stored when DONE is reached.
C27_NothingAfterTerminal ==
    /\ [][(state \in {"DONE", "FAILED"}) =>
            (state' = state /\ history' = history
                            /\ conversation' = conversation)]_vars
    /\ [][(state # "DONE" /\ state' = "DONE") =>
            conversation' = Append(conversation, FinalAnswerMessage)]_vars

\* a run returned DONE after a tool step: the stored conversation ends with
\* the final answer and the teardown steps ran with the FSM in DONE
C27_Witness ==
    /\ Returned
    /\ state = "DONE"
    /\ Len(conversation) = 4
    /\ conversation[4] = FinalAnswerMessage
    /\ session_row.status = "DONE"

----------------------------------------------------------------------------
(* The MemoryInterface of SQLiteStorage: table kv_memory and the            *)
(* conversation kept in it (sqlite.py 57-65, 210-246; types.py 54-58,       *)
(* 224-246).  A row is keyed by <<key, namespace>>.                         *)

\* MessageRole: member name -> value
MessageRole ==
    [SYSTEM |-> "system", USER |-> "user", ASSISTANT |-> "assistant",
     TOOL |-> "tool"]

\* the Message objects appended: role a MessageRole member, "None" for None
MemMessages ==
    {[role |-> "USER", content |-> "A", tool_name |-> "None",
      tool_call_id |-> "None"],
     [role |-> "ASSISTANT", content |-> "A", tool_name |-> "None",
      tool_call_id |-> "None"],
     [role |-> "TOOL", content |-> "B", tool_name |-> "read_file",
      tool_call_id |-> "id1"]}

\* Message.to_dict: the role by its value
to_dict(m) ==
    [role |-> MessageRole[m.role], content |-> m.content,
     tool_name |-> m.tool_name, tool_call_id |-> m.tool_call_id]

\* Message.from_dict: MessageRole(d["role"]) is the member with that value
from_dict(dct) ==
    [role |-> CHOOSE r \in DOMAIN MessageRole : MessageRole[r] = dct.role,
     content |-> dct.content, tool_name |-> dct.tool_name,
     tool_call_id |-> dct.tool_call_id]

\* json.dumps of a str-or-None field: null for None, a string otherwise
json_dumps_field(x) ==
    IF x = "None" THEN [t |-> "null", s |-> ""] ELSE [t |-> "string", s |-> x]

\* json.loads of such a field
json_loads_field(j) == IF j.t = "null" THEN "None" ELSE j.s

\* json.dumps of a list of message dicts
json_dumps(value) ==
    [i \in 1..Len(value) |->
        [f \in DOMAIN value[i] |-> json_dumps_field(value[i][f])]]

\* json.loads of the text of such a list
json_loads(text) ==
    [i \in 1..Len(text) |->
        [f \in DOMAIN text[i] |-> json_loads_field(text[i][f])]]

\* a key that is the same for every session
conv_key_shared(session_id) == "conv_"

\* f"conv_{session_id}"
conv_key(session_id) == "conv_" \o session_id

\* SQLiteStorage.get_kv: the value of the row, found FALSE for None
get_kv(kv, key, namespace) ==
    IF <<key, namespace>> \in DOMAIN kv
    THEN [found |-> TRUE, value |-> json_loads(kv[<<key, namespace>>].value_json)]
    ELSE [found |-> FALSE, value |-> <<>>]

\* SQLiteStorage.set_kv: INSERT OR REPLACE of the row
set_kv(kv, key, value, namespace, session_id) ==
    Put(kv, <<key, namespace>>,
        [value_json |-> json_dumps(value), session_id |-> session_id])

\* SQLiteStorage.get_conversation_history
get_conversation_history(kv, session_id) ==
    LET data == get_kv(kv, conv_key(session_id), "system")
    IN  IF ~data.found THEN <<>>
        ELSE [i \in 1..Len(data.value) |-> from_dict(data.value[i])]

\* SQLiteStorage.append_message: read the history, append, write it back
SQLiteStorage_append_message(kv, session_id, message) ==
    LET existing == Append(get_conversation_history(kv, session_id), message)
    IN  set_kv(kv, conv_key(session_id),
               [i \in 1..Len(existing) |-> to_dict(existing[i])],
               "system", session_id)

MemoryFrame ==
    /\ UNCHANGED kernel_vars /\ UNCHANGED chain_vars
    /\ UNCHANGED breaker_vars /\ UNCHANGED router_vars
    /\ UNCHANGED sandbox_vars

\* the record of a call on the MemoryInterface
MemoryOp(op, session_id, message, ok) ==
    [op |-> op, session_id |-> session_id, message |-> message, ok |-> ok,
     n |-> memory.op.n + 1]

\* append_message(session_id, message): the read may raise
\* MemoryCorruptionError and the write AuditWriteFailureError, and then the
\* table is as it was
MemAppendMessage ==
    /\ pc = "off" /\ memory.op.n < MaxMemoryOps
    /\ \E session_id \in SessionIds, message \in MemMessages,
          outcome \in {"ok", "MemoryCorruptionError", "AuditWriteFailureError"} :
          memory' = [kv |-> IF outcome = "ok"
                            THEN SQLiteStorage_append_message(
                                     memory.kv, session_id, message)
                            ELSE memory.kv,
                     op |-> MemoryOp("append_message", session_id, message,
                                     outcome = "ok")]
    /\ MemoryFrame

\* set_kv(key, value, namespace) by another user of the store: a key of its
\* own, or the text of a conversation key in the default namespace
MemSetKv ==
    /\ pc = "off" /\ memory.op.n < MaxMemoryOps
    /\ \E key \in {"k", conv_key("s1")}, ok \in BOOLEAN,
          value \in {<<>>, <<to_dict(CHOOSE m \in MemMessages : m.role = "TOOL")>>} :
          memory' = [kv |-> IF ok
                            THEN set_kv(memory.kv, key, value, "default", "None")
                            ELSE memory.kv,
                     op |-> MemoryOp("set_kv", "None", NoMessage, ok)]
    /\ MemoryFrame

InitMemory ==
    /\ KernelOff /\ StoreIdle /\ BreakerIdle /\ RouterIdle /\ SandboxIdle
    /\ MemoryIdle

NextMemory == MemAppendMessage \/ MemSetKv

SpecMemory == InitMemory /\ [][NextMemory]_vars

(***************************************************************************)
(* The conversation history (sqlite.py 210-220), under SpecMemory.         *)
(***************************************************************************)

\* C28: conversation history is append-only and per session: after every
\* append_message(s, m) the history of s is the previous history of s
\* followed by m, and the history of every other session is unchanged.  (A
\* call that raises leaves every history as it was.)
C28_AppendOnlyPerSession ==
    [][(memory'.op.op = "append_message" /\ memory'.op.n = memory.op.n + 1) =>
          LET s == memory'.op.session_id
              m == memory'.op.message
          IN  /\ get_conversation_history(memory'.kv, s) =
                    IF memory'.op.ok
                    THEN append_message(get_conversation_history(memory.kv, s), m)
                    ELSE get_conversation_history(memory.kv, s)
              /\ \A other \in SessionIds \ {s} :
                    get_conversation_history(memory'.kv, other) =
                        get_conversation_history(memory.kv, other)]_vars

\* a message has just been appended to a session that already had one, while
\* the other session has a history of its own
C28_Witness ==
    /\ memory.op.op = "append_message" /\ memory.op.ok
    /\ Len(get_conversation_history(memory.kv, memory.op.session_id)) = 2
    /\ \E other \in SessionIds \ {memory.op.session_id} :
          Len(get_conversation_history(memory.kv, other)) = 1

(***************************************************************************)
(* The successful run (kernel.py 111-210), under Spec.                     *)
(***************************************************************************)

\* the provider answered every call made, its tool calls were for
\* registered, permitted tools, and the sandbox gave a ToolResult for each
\* (returning it, or raising an error that _execute_tool turns into one)
ProviderAndToolsWorked ==
    /\ \A i \in 1..Len(model_calls) :
          \/ model_calls[i].action = "final_answer"
          \/ /\ model_calls[i].action = "tool_call"
             /\ dispatch_check(manifests, model_calls[i].tool_name,
                               config.allowed_permissions) = "None"
    /\ \A i \in 1..Len(sandbox_calls) :
          \/ sandbox_calls[i].raised = "None"
          \/ execute_tool_catches(sandbox_calls[i].raised)

\* no limit stopped the run: neither max_steps nor the budget was exceeded
NoLimitHit ==
    \A i \in 1..Len(exc_log) :
        exc_log[i] \notin {"StepLimitExceededError", "CostBudgetExceededError"}

\* C29: when the provider's k-th response is its first final_answer, the
\* k-1 earlier ones being calls to registered, permitted tools that the
\* sandbox runs to a ToolResult, and no limit is exceeded, run returns DONE
\* with the answer, steps_taken = k and error_type None; the conversation
\* holds 2k messages (the task, a sentinel and a tool message per tool call,
\* the answer) and the step table holds exactly k rows, all completed.
\* (Stated for the runs in which no store call has failed.)
C29_SuccessfulRun ==
    (pc = "end" /\ StoreWorked /\ ProviderAndToolsWorked /\ NoLimitHit) =>
        LET k == Len(model_calls)
        IN  /\ k >= 1 /\ k <= config.max_steps
            /\ model_calls[k].action = "final_answer"
            /\ \A i \in 1..(k - 1) : model_calls[i].action = "tool_call"
            /\ Returned
            /\ result.status = "DONE" /\ result.answer = "answer"
            /\ result.steps_taken = k /\ result.error_type = "None"
            /\ Len(conversation) = 2 * k
            /\ conversation[1].role = "user"
            /\ \A i \in 1..(k - 1) :
                  /\ conversation[2 * i] =
                        Message("assistant", "[Tool call]", "None", i)
                  /\ conversation[2 * i + 1].role = "tool"
                  /\ conversation[2 * i + 1].tool_name = model_calls[i].tool_name
            /\ conversation[2 * k] = FinalAnswerMessage
            /\ Len(steps) = k
            /\ \A i \in 1..k : /\ steps[i].step_number = i
                               /\ steps[i].status = "completed"

\* a run of two steps returned DONE: a tool call, then the final answer
C29_Witness ==
    /\ pc = "end" /\ StoreWorked /\ ProviderAndToolsWorked /\ NoLimitHit
    /\ Len(model_calls) = 2
    /\ model_calls[1].action = "tool_call"
    /\ result.status = "DONE"
    /\ Len(conversation) = 4 /\ Len(steps) = 2

(***************************************************************************)
(* The order of the audit events (kernel.py 80-94, 256-260), under Spec.   *)
(***************************************************************************)

\* the events emitted once per session, at its two ends
SessionEvents == {"injection_scan_warn", "session_start", "session_end"}

\* C30: for every run that returns a SessionResult, the stored events are in
\* the order the kernel emitted them: session_start is first, preceded only
\* by one injection_scan_warn when the task matches an injection pattern
\* (and the run went on after it), exactly one session_end is last, and the
\* events between them are those of the steps, in the order of the steps,
\* the end of a tool call right after its start.
C30_EventOrder ==
    Returned =>
        LET n == Len(events)
            first == IF task_hit THEN 2 ELSE 1
        IN  /\ n > first
            /\ task_hit => events[1].event_type = "injection_scan_warn"
            /\ CountEvents("injection_scan_warn") = first - 1
            /\ events[first].event_type = "session_start"
            /\ CountEvents("session_start") = 1
            /\ events[n].event_type = "session_end"
            /\ CountEvents("session_end") = 1
            /\ \A i \in (first + 1)..(n - 1) :
                  /\ events[i].event_type \notin SessionEvents
                  /\ \A j \in (i + 1)..(n - 1) :
                        (events[i].step_id > 0 /\ events[j].step_id > 0) =>
                            events[i].step_id <= events[j].step_id
                  /\ events[i].event_type \in
                        {"tool_call_end", "tool_call_failed"} =>
                        /\ events[i - 1].event_type = "tool_call_start"
                        /\ events[i - 1].step_id = events[i].step_id

\* a run whose task matched an injection pattern returned after a tool step
C30_Witness ==
    /\ Returned /\ task_hit
    /\ Len(events) >= 5
    /\ events[1].event_type = "injection_scan_warn"
    /\ CountEvents("tool_call_start") = 1
    /\ result.status = "DONE"

(***************************************************************************)
(* The session row and the SessionResult (kernel.py 256-268; sqlite.py     *)
(* 194-208), under Spec.                                                   *)
(***************************************************************************)

\* C31: when run returns a SessionResult the persisted session row agrees
\* with it: its status is the result's terminal status (DONE or FAILED),
\* finished_at is set, and error_type and error_msg are the result's error
\* fields; while the row says RUNNING or WAITING its finished_at is null.
C31_RowAgreesWithResult ==
    /\ Returned =>
          /\ result.status \in {"DONE", "FAILED"}
          /\ session_row.status = result.status
          /\ session_row.finished
          /\ session_row.error_type = result.error_type
          /\ session_row.error_msg = result.error_message
    /\ session_row.status \in {"RUNNING", "WAITING"} => ~session_row.finished

\* a run returned FAILED with its error fields, after its row had been
\* synced as WAITING during a tool call
C31_Witness ==
    /\ Returned
    /\ result.status = "FAILED" /\ result.error_type # "None"
    /\ session_row.status = "FAILED" /\ session_row.finished
    /\ \E i \in 1..Len(history) : history[i][2] = "WAITING"

(***************************************************************************)
(* The per-run overrides of a SessionRequest (types.py 196-209; kernel.py  *)
(* 104-124), under SpecOverride.                                           *)
(***************************************************************************)

\* C32: a SessionRequest's per-run overrides take effect in the kernel: the
\* router is called with the provider and model overrides when they are set,
\* with the configured primaries otherwise; and when a max_steps override is
\* set, it is the step limit enforced for the run: no step beyond it is
\* started, and StepLimitExceeded is raised only at the step after it.
C32_OverridesTakeEffect ==
    /\ \A i \in 1..Len(model_calls) :
          /\ model_calls[i].provider =
                IF request.provider_override # "None"
                THEN request.provider_override ELSE config.primary_provider
          /\ model_calls[i].model =
                IF request.model_override # "None"
                THEN request.model_override ELSE config.primary_model
    /\ request.max_steps_override # 0 =>
          /\ \A i \in 1..Len(steps) :
                steps[i].step_number <= request.max_steps_override
          /\ (\E i \in 1..Len(exc_log) : exc_log[i] = "StepLimitExceededError")
                => step_count = request.max_steps_override + 1

(***************************************************************************)
(* The steps of a tool call (kernel.py 112-210), under Spec.               *)
(***************************************************************************)

\* the assistant sentinel of the tool call of step n
Sentinel(n) == Message("assistant", "[Tool call]", "None", n)

\* the last message of the stored conversation
LastMessage == conversation[Len(conversation)]

\* the sandbox is invoked in this step; a tool-role message is appended in
\* this step; the router is called in this step
SandboxInvoked == Len(sandbox_calls') = Len(sandbox_calls) + 1
ToolMessageAppended ==
    /\ Len(conversation') = Len(conversation) + 1
    /\ conversation'[Len(conversation')].role = "tool"
RouterCalled == Len(model_calls') = Len(model_calls) + 1

\* C33: for every tool call the kernel finalizes the step row as
\* tool_call/completed, appends the assistant sentinel carrying the
\* tool_call_id, moves RUNNING -> WAITING and syncs, invokes the sandbox,
\* moves WAITING -> RUNNING and syncs, and appends the tool-role message with
\* the same tool_call_id, in this order; so the sandbox runs only while the
\* FSM is WAITING, and the next model call is made only after the tool
\* message is appended.
C33_ToolCallOrder ==
    /\ [][SandboxInvoked =>
            (/\ state = "WAITING" /\ session_row.status = "WAITING"
             /\ steps[step_count].status = "completed"
             /\ steps[step_count].step_type = "tool_call"
             /\ LastMessage = Sentinel(step_count))]_vars
    /\ [][ToolMessageAppended =>
            (/\ state = "RUNNING" /\ session_row.status = "RUNNING"
             /\ Len(sandbox_calls) > 0
             /\ sandbox_calls[Len(sandbox_calls)].step = step_count
             /\ sandbox_calls[Len(sandbox_calls)].state = "WAITING"
             /\ LastMessage = Sentinel(step_count)
             /\ conversation'[Len(conversation')].tool_call_id = step_count)]_vars
    /\ [][(RouterCalled /\ step_count > 1) =>
            (/\ LastMessage.role = "tool"
             /\ LastMessage.tool_call_id = step_count - 1
             /\ state = "RUNNING")]_vars

(***************************************************************************)
(* The events around a sandbox invocation (kernel.py 270-295; sandbox.py   *)
(* 227-240), under Spec.                                                   *)
(***************************************************************************)

\* the events that close a tool call
ToolCallClosed == {"tool_call_end", "tool_call_failed"}

\* C34: every sandbox invocation is bracketed by audit writes: a
\* tool_call_start event of its step is stored before it, and whatever the
\* sandbox returns or raises, the next event written for the session after
\* that tool_call_start is the one tool_call_end or tool_call_failed event
\* of the same step.
C34_SandboxBracketed ==
    /\ \A i \in 1..Len(sandbox_calls) :
          \E j \in 1..Len(events) :
              /\ events[j].event_type = "tool_call_start"
              /\ events[j].step_id = sandbox_calls[i].step
    /\ \A j \in 1..Len(events) :
          (events[j].event_type = "tool_call_start" /\ j < Len(events)) =>
              /\ events[j + 1].event_type \in ToolCallClosed
              /\ events[j + 1].step_id = events[j].step_id
    /\ \A n \in 1..step_count :
          Cardinality({j \in 1..Len(events) :
                          /\ events[j].event_type \in ToolCallClosed
                          /\ events[j].step_id = n}) <= 1

(***************************************************************************)
(* The fields of the SessionResult (kernel.py 107-109, 157-164, 245-268),  *)
(* under Spec.                                                             *)
(***************************************************************************)

\* C35: in every SessionResult returned by run, answer is non-null if and
\* only if status is DONE, and error_type is non-null if and only if status
\* is FAILED, for every behaviour of the provider, the sandbox and the
\* store's reads.
C35_ResultFields ==
    Returned =>
        /\ (result.answer # "None") <=> (result.status = "DONE")
        /\ (result.error_type # "None") <=> (result.status = "FAILED")

(***************************************************************************)
(* The step rows at the end of a session (kernel.py 126-183, 212-254;      *)
(* sqlite.py 250-280), under Spec.                                         *)
(***************************************************************************)

\* C36: when a session ends, no step row of the session is left in status
\* started: every row inserted by write_step_start has been finalized by
\* write_step_end as completed or failed, also when the model call fails or
\* the requested tool is unknown or not permitted.  (Stated for the runs in
\* which no store call has failed.)
C36_NoStepLeftStarted ==
    (Returned /\ StoreWorked) =>
        \A i \in 1..Len(steps) : steps[i].status \in {"completed", "failed"}

(***************************************************************************)
(* A failed event write (sqlite.py 174-180, 282-295), under SpecStore.     *)
(***************************************************************************)

\* write_event has just raised AuditWriteFailureError: no row was stored
EventWriteFailed ==
    /\ writes_made' = writes_made + 1
    /\ store_op'.op = "write_event" /\ ~store_op'.ok
    /\ ev_rows' = ev_rows

\* C37: a failed event write leaves the chain unchanged: when write_event
\* raises AuditWriteFailure, the session's in-memory chain head is the same
\* as before the call.
C37_FailedWriteKeepsHead ==
    [][EventWriteFailed =>
          LET k == ChainKey(store_op'.session_id, "event")
          IN  Get(chain_hashes', k, ZeroHash) = Get(chain_hashes, k, ZeroHash)]_vars

(***************************************************************************)
(* The chain across close and re-open (sqlite.py 156-166), under SpecStore *)
(***************************************************************************)

\* the rows of the session in the order verify_chain reads them
ReadOrder(session_id) == OrderByTimestamp(RowsOf(ev_rows, session_id))

\* the head held in memory is the chain_hash of the row verify_chain reads last
HeadIsLastRead(session_id) ==
    LET rows == ReadOrder(session_id)
    IN  rows # <<>> /\ EventHead(session_id) = rows[Len(rows)].chain_hash

\* an event of the session has just been stored, its timestamp not before
\* that of any event the session already has
EventAppended(session_id) ==
    /\ store_op'.op = "write_event" /\ store_op'.ok
    /\ store_op'.session_id = session_id
    /\ ev_rows' # ev_rows
    /\ \A i \in 1..Len(ev_rows) :
          ev_rows[i].session_id = session_id =>
              ev_rows[i].timestamp <= ev_rows'[Len(ev_rows')].timestamp

\* C38: after the store is closed and re-opened, the head of every session
\* that has stored events is the chain_hash of the event verify_chain reads
\* last, and an event appended to such a session continues the chain from
\* it: a session that verified still verifies after the append, and its head
\* is again the last event read, also when events carry the same timestamp.
C38_ReopenContinuesChain ==
    /\ [][store_op'.op = "reopen" =>
            \A sid \in SessionIds :
                IF RowsOf(ev_rows, sid) = <<>>
                THEN EventHead(sid)' = ZeroHash
                ELSE HeadIsLastRead(sid)']_vars
    /\ [][\A sid \in SessionIds :
            (EventAppended(sid) /\ HeadIsLastRead(sid) /\ verify_chain(sid)) =>
                (HeadIsLastRead(sid)' /\ verify_chain(sid)')]_vars

\* C38 witness: the store was re-opened and then an event was appended to a
\* session that had an event with the same timestamp; the session verifies
C38_Witness ==
    /\ store_op.reopened
    /\ store_op.op = "write_event" /\ store_op.ok
    /\ LET rows == RowsOf(ev_rows, store_op.session_id)
       IN  /\ Len(rows) = 2
           /\ rows[1].timestamp = rows[2].timestamp
           /\ rows[2].chain_hash = next_hash(rows[1].chain_hash, rows[2].payload_json)
    /\ HeadIsLastRead(store_op.session_id)
    /\ verify_chain(store_op.session_id)

(***************************************************************************)
(* The fields of the breaker (circuit_breaker.py 29-66), under SpecBreaker *)
(***************************************************************************)

\* C39: in every reachable breaker state, after any sequence of
\* allow_request, state queries, record_success, record_failure, reset and
\* clock advances, opened_at is set if and only if the state is OPEN or
\* HALF_OPEN, and the number of stored failure timestamps is strictly below
\* failure_threshold.
C39_BreakerFields ==
    /\ breaker.opened_at # <<>> <=> breaker.state \in {"OPEN", "HALF_OPEN"}
    /\ Len(breaker.failures) < breaker.threshold

\* C39 witness: a breaker with a threshold of at least 2 opened and was
\* closed again (a successful probe or a reset); failures were then recorded
\* up to one below the threshold
C39_Witness ==
    /\ cb_log.opened > 0 /\ cb_log.cleared >= cb_log.opened
    /\ breaker.state = "CLOSED" /\ breaker.opened_at = <<>>
    /\ breaker.threshold >= 2
    /\ Len(breaker.failures) = breaker.threshold - 1
    /\ cb_op.op = "record_failure"

(***************************************************************************)
(* Invocations and the breaker (router.py 37-73), under SpecRouter         *)
(***************************************************************************)

\* the errors of the provider interface
InterfaceErrors == RETRYABLE \cup {"ModelOutputValidationError"}

\* what the router owes the breaker for the invocations of the call so far:
\* a success for a response, a failure for an interface error
OwedRecords(r) ==
    LET told == SelectSeq(OutcomesOf(r),
                          LAMBDA o : o \in {"ok"} \cup InterfaceErrors)
    IN  [i \in 1..Len(told) |-> IF told[i] = "ok" THEN "success" ELSE "failure"]

\* the provider has just been invoked
ProviderInvoked ==
    /\ router'.invoked # <<>>
    /\ router'.invoked # router.invoked

\* C40: across any sequence of router calls on one provider, the provider is
\* invoked at most 3 times per call and never on an attempt made while its
\* breaker is OPEN, and every provider invocation that returns or raises one
\* of the interface errors is recorded exactly once with the breaker, as a
\* success or as a failure respectively.
C40_InvocationsAndBreaker ==
    /\ [](Len(router.invoked) <= 3)
    /\ [][ProviderInvoked =>
            /\ router.pc = "invoke"
            /\ Len(router'.invoked) = Len(router.invoked) + 1
            /\ breaker.state # "OPEN"
            /\ state_property(breaker, monotonic).state # "OPEN"]_vars
    /\ [](router.recorded = OwedRecords(router))
    /\ [][ProviderInvoked =>
            LET o == router'.invoked[Len(router'.invoked)].outcome
            IN  breaker' = IF o = "ok" THEN record_success(breaker)
                           ELSE IF o \in InterfaceErrors
                                THEN record_failure(breaker, monotonic)
                           ELSE breaker]_vars

\* C40 witness: the second call found the breaker past its recovery time,
\* its probe raised an interface error, which was recorded and opened the
\* breaker again, and the second attempt was refused without an invocation
C40_Witness ==
    /\ CallDone
    /\ router.calls = 2
    /\ router.rejected_at = 2
    /\ Len(router.invoked) = 1
    /\ router.invoked[1].outcome \in InterfaceErrors
    /\ router.recorded = <<"failure">>
    /\ breaker.state = "OPEN"

====
